---- MODULE Spec2Model ----
(***************************************************************************)
(* A model of the multiple-sequence-alignment engine of PHAST (msa.c):     *)
(* the alignment object with its explicit rows and its compressed          *)
(* (sufficient-statistics) view, the coordinate maps, the category         *)
(* labelling and the structural transforms.                                *)
(*                                                                         *)
(* Conventions.  A C pointer is a sequence of length 0 (NULL) or 1 (the    *)
(* object pointed to).  A C array index i is the TLA+ index i+1; the       *)
(* 1-based coordinates of the coordinate maps and of features are kept.    *)
(* A row is the sequence of its first `length` characters; the size of     *)
(* the storage behind it is kept in row_alloc.  The categories array is    *)
(* modelled with its allocated size, which the transforms never change.    *)
(***************************************************************************)
EXTENDS Integers, Sequences, FiniteSets, TLC

VARIABLES
    msa,        \* the alignment object the operations work on
    pre,        \* the alignment object as it was before the last operation
    orig,       \* the alignment object as it was built
    hist,       \* the operations applied so far, each with its argument
    status,     \* "ok", or "abort" when the operation ended in assert/die/exit
    ret,        \* int return value of the last operation (0 when it has none)
    errstr,     \* the messages appended to errstr by msa_coding_clean
    ub,         \* an access outside allocated storage has happened
    map,        \* the coordinate map built for a row of the alignment
    gff_set     \* the feature set handed to msa_map_gff_coords (NULL: none)

vars == << msa, pre, orig, hist, status, ret, errstr, ub, map, gff_set >>

\* The last operation and its argument; the number of operations applied.
nops == Len(hist)
op == IF hist = << >> THEN "init" ELSE hist[Len(hist)].name
arg == hist[Len(hist)].arg

----------------------------------------------------------------------------
(* Bounds of the model *)

MaxLen == 3
MaxSrcLen == 1

----------------------------------------------------------------------------
(* Pointers and small helpers *)

NULL == << >>
Ptr(x) == << x >>
IsNull(p) == p = << >>
Deref(p) == p[1]

Min(a, b) == IF a < b THEN a ELSE b

\* The sequences of a sequence, one after the other.
RECURSIVE Flatten(_)
Flatten(u) == IF u = << >> THEN << >> ELSE u[1] \o Flatten(Tail(u))

GAP_CHAR == "-"
DEFAULT_MDATA_CHARS == << "*", "N" >>
STRIP_ALL_GAPS == -2
STRIP_ANY_GAPS == -1

----------------------------------------------------------------------------
(* The alignment object *)

\* msa_new: rows and names are taken over as passed; no categories, no
\* compressed view, alloc_len assumed equal to length.  The storage behind
\* each row passed in holds length characters and the terminator.
msa_new(seqs, names, nseqs, length) ==
    [ seqs       |-> seqs,
      names      |-> names,
      nseqs      |-> nseqs,
      length     |-> length,
      categories |-> NULL,
      ncats      |-> -1,
      ss         |-> NULL,
      alloc_len  |-> length,
      row_alloc  |-> IF IsNull(seqs) THEN << >>
                     ELSE [j \in 1..nseqs |-> length + 1],
      missing    |-> DEFAULT_MDATA_CHARS ]

\* The compressed view, by what it encodes: the character matrix (one row
\* per sequence), the tuple size and whether the column order is stored.
ss_new(data, tuple_size, ordered) ==
    [ data |-> data, tuple_size |-> tuple_size, ordered |-> ordered ]

\* ss_from_msas(msa, tuple_size, store_order, ...): build the compressed
\* view from the explicit rows.
ss_from_msas(m, tuple_size, store_order) ==
    [m EXCEPT !.ss = Ptr(ss_new(Deref(m.seqs), tuple_size, store_order))]

\* ss_to_msa: materialize the explicit rows from the compressed view.
ss_to_msa(m) ==
    [m EXCEPT !.seqs = Ptr(Deref(m.ss).data),
              !.row_alloc = [j \in 1..m.nseqs |-> m.length + 1]]

\* ss_free + msa->ss = NULL
ss_free(m) == [m EXCEPT !.ss = NULL]

\* ss_get_char_pos(msa, pos, seq, 0)
ss_get_char_pos(m, pos, seq) == Deref(m.ss).data[seq + 1][pos + 1]

\* msa_get_char(msa, seq, pos), seq and pos 0-based as in the source
msa_get_char(m, seq, pos) ==
    IF ~IsNull(m.seqs) THEN Deref(m.seqs)[seq + 1][pos + 1]
    ELSE ss_get_char_pos(m, pos, seq)

\* The character matrix as msa_get_char presents it.
Matrix(m) ==
    [j \in 1..m.nseqs |-> [i \in 1..m.length |-> msa_get_char(m, j - 1, i - 1)]]

\* A read of the categories array: entry i (1-based) when it lies inside
\* the allocated array, and whatever the memory behind it holds otherwise.
CatRead(cats, i, g) == IF i <= Len(cats) THEN cats[i] ELSE g

----------------------------------------------------------------------------
(* Gap stripping and projection *)

\* The indices 1..n, in order, that satisfy Keep.
KeptCols(n, Keep(_)) == SelectSeq([i \in 1..n |-> i], Keep)

StripColumn_all_only(rows, nseqs, i, gap_strip_mode) ==
    \A j \in 1..nseqs : rows[j][i] = GAP_CHAR

\* The loop of msa_strip_gaps deciding whether column i (1-based) goes.
StripColumn(rows, nseqs, i, gap_strip_mode) ==
    IF gap_strip_mode = STRIP_ANY_GAPS
    THEN \E j \in 1..nseqs : rows[j][i] = GAP_CHAR
    ELSE \A j \in 1..nseqs : rows[j][i] = GAP_CHAR

\* seqs[j][k] = seqs[j][i] for the kept columns i, k counting them.
CompactRows(rows, keep) ==
    [j \in 1..Len(rows) |-> [p \in 1..Len(keep) |-> rows[j][keep[p]]]]

\* categories[k] = categories[i] for the kept columns; the entries from k
\* on keep what they held, the array keeps its allocated size.
CompactCats(cats, keep, g) ==
    [p \in 1..Len(cats) |->
        IF p <= Len(keep) THEN CatRead(cats, keep[p], g) ELSE cats[p]]

\* ss_strip_gaps(msa, gap_strip_mode): the same columns go, in the
\* compressed view; length and categories follow.
ss_strip_gaps(m, gap_strip_mode, g) ==
    LET data == Deref(m.ss).data
        keep == KeptCols(m.length,
                    LAMBDA i : IF gap_strip_mode > 0
                               THEN data[gap_strip_mode][i] # GAP_CHAR
                               ELSE ~StripColumn(data, m.nseqs, i, gap_strip_mode))
    IN  [m EXCEPT !.ss = Ptr([Deref(m.ss) EXCEPT !.data = CompactRows(data, keep)]),
                  !.length = Len(keep),
                  !.categories = IF IsNull(m.categories) THEN NULL
                                 ELSE Ptr(CompactCats(Deref(m.categories), keep, g))]

msa_project_rows_only(m, refseq, g) ==
    LET rows == Deref(m.seqs)
        keep == KeptCols(m.length, LAMBDA i : rows[refseq][i] # GAP_CHAR)
    IN  [m EXCEPT !.seqs = Ptr(CompactRows(rows, keep)), !.length = Len(keep)]

\* msa_project(msa, refseq), refseq 1-based
msa_project(m, refseq, g) ==
    LET rows == Deref(m.seqs)
        keep == KeptCols(m.length, LAMBDA i : rows[refseq][i] # GAP_CHAR)
    IN  [m EXCEPT !.seqs = Ptr(CompactRows(rows, keep)),
                  !.categories = IF IsNull(m.categories) THEN NULL
                                 ELSE Ptr(CompactCats(Deref(m.categories), keep, g)),
                  !.length = Len(keep)]

\* msa_project reads and writes categories[i] for every kept column i.
msa_project_ub(m, refseq) ==
    /\ ~IsNull(m.categories)
    /\ \E i \in 1..m.length :
          /\ Deref(m.seqs)[refseq][i] # GAP_CHAR
          /\ i > Len(Deref(m.categories))

\* msa_strip_gaps(msa, gap_strip_mode)
msa_strip_gaps(m, gap_strip_mode, g) ==
    LET m1 == IF ~IsNull(m.seqs) /\ ~IsNull(m.ss) THEN ss_free(m) ELSE m
    IN  IF ~IsNull(m1.ss) THEN ss_strip_gaps(m1, gap_strip_mode, g)
        ELSE IF gap_strip_mode > 0 THEN msa_project(m1, gap_strip_mode, g)
        ELSE
          LET rows == Deref(m1.seqs)
              keep == KeptCols(m1.length,
                         LAMBDA i : ~StripColumn(rows, m1.nseqs, i, gap_strip_mode))
          IN  [m1 EXCEPT !.seqs = Ptr(CompactRows(rows, keep)),
                         !.categories =
                             IF IsNull(m1.categories) THEN NULL
                             ELSE Ptr(CompactCats(Deref(m1.categories), keep, g)),
                         !.length = Len(keep)]

\* msa_strip_gaps copies categories[i] to categories[k] only when k # i.
msa_strip_gaps_ub(m, gap_strip_mode) ==
    /\ ~IsNull(m.seqs)
    /\ ~IsNull(m.categories)
    /\ IF gap_strip_mode > 0 THEN msa_project_ub(m, gap_strip_mode)
       ELSE LET rows == Deref(m.seqs)
                keep == KeptCols(m.length,
                           LAMBDA i : ~StripColumn(rows, m.nseqs, i, gap_strip_mode))
            IN  \E p \in 1..Len(keep) :
                    keep[p] # p /\ keep[p] > Len(Deref(m.categories))

----------------------------------------------------------------------------
(* Reverse complement *)

msa_compl_char_without_T(c) ==
    IF c = "A" THEN "T"
    ELSE IF c = "C" THEN "G"
    ELSE IF c = "G" THEN "C"
    ELSE c

msa_compl_char(c) ==
    IF c = "A" THEN "T"
    ELSE IF c = "C" THEN "G"
    ELSE IF c = "G" THEN "C"
    ELSE IF c = "T" THEN "A"
    ELSE c

\* The loop of msa_reverse_compl_seq from index i (0-based) on.
RECURSIVE reverse_compl_loop(_, _, _, _)
reverse_compl_loop(seq, i, midpt, length) ==
    IF i > midpt THEN seq
    ELSE LET tmp == msa_compl_char(seq[i + 1])
             s1  == [seq EXCEPT ![i + 1] = msa_compl_char(seq[length - i])]
             s2  == [s1 EXCEPT ![length - i] = tmp]
         IN  reverse_compl_loop(s2, i + 1, midpt, length)

\* msa_reverse_compl_seq(seq, length)
msa_reverse_compl_seq(seq, length) ==
    IF length <= 0 THEN seq
    ELSE reverse_compl_loop(seq, 0, (length - 1) \div 2, length)

\* The array reversed (the categories in ss_reverse_compl).
Reversed(a, n) == [i \in 1..Len(a) |-> IF i <= n THEN a[n + 1 - i] ELSE a[i]]

\* ss_reverse_compl(msa): the compressed view reverse-complemented, the
\* categories reversed with it.
ss_reverse_compl(m) ==
    LET s == Deref(m.ss)
    IN  [m EXCEPT !.ss = Ptr([s EXCEPT !.data =
                      [j \in 1..Len(s.data) |->
                          msa_reverse_compl_seq(s.data[j], Len(s.data[j]))]]),
                  !.categories =
                      IF IsNull(m.categories) THEN NULL
                      ELSE Ptr(Reversed(Deref(m.categories),
                                        Min(m.length, Len(Deref(m.categories)))))]

\* assert(msa->categories == NULL) when there is no compressed view
msa_reverse_compl_aborts(m) == IsNull(m.ss) /\ ~IsNull(m.categories)

\* msa_reverse_compl(msa)
msa_reverse_compl(m) ==
    LET viaseqs == ~IsNull(m.ss) /\ Deref(m.ss).tuple_size > 1
        tupsize == IF viaseqs THEN Deref(m.ss).tuple_size ELSE -1
        store_order == viaseqs /\ Deref(m.ss).ordered
        m1 == IF viaseqs
              THEN ss_free(IF IsNull(m.seqs) THEN ss_to_msa(m) ELSE m)
              ELSE m
        m2 == IF ~IsNull(m1.seqs)
              THEN [m1 EXCEPT !.seqs = Ptr([j \in 1..m1.nseqs |->
                       msa_reverse_compl_seq(Deref(m1.seqs)[j], m1.length)])]
              ELSE m1
        m3 == IF ~IsNull(m2.ss) THEN ss_reverse_compl(m2) ELSE m2
    IN  IF tupsize # -1 THEN ss_from_msas(m3, tupsize, store_order) ELSE m3

----------------------------------------------------------------------------
(* Concatenation *)

\* assert(aggregate_msa->nseqs == source_msa->nseqs)
msa_concatenate_aborts(aggregate_msa, source_msa) ==
    aggregate_msa.nseqs # source_msa.nseqs

\* msa_concatenate(aggregate_msa, source_msa).  fresh[j] is what the first
\* `length` characters of a newly allocated (never written) row j hold.
msa_concatenate(aggregate_msa, source_msa, fresh) ==
    LET a0 == IF IsNull(aggregate_msa.seqs)
              THEN [aggregate_msa EXCEPT
                      !.seqs = Ptr([j \in 1..aggregate_msa.nseqs |-> << >>]),
                      !.row_alloc = [j \in 1..aggregate_msa.nseqs |-> 0],
                      !.alloc_len = 0]
              ELSE aggregate_msa
        total == a0.length + source_msa.length
        a1 == IF a0.alloc_len = 0
              THEN [a0 EXCEPT
                      !.alloc_len = total,
                      !.seqs = Ptr([j \in 1..a0.nseqs |-> fresh[j]]),
                      !.row_alloc = [j \in 1..a0.nseqs |-> total + 1]]
              ELSE IF total > a0.alloc_len
              THEN [a0 EXCEPT
                      !.alloc_len = a0.alloc_len + source_msa.length * 2,
                      !.row_alloc = [j \in 1..a0.nseqs |->
                          a0.alloc_len + source_msa.length * 2 + 1]]
              ELSE a0
    IN  [a1 EXCEPT
           !.seqs = Ptr([j \in 1..a1.nseqs |->
                        Deref(a1.seqs)[j] \o Deref(source_msa.seqs)[j]]),
           !.length = total]

\* Whether msa_concatenate takes the branch that allocates new rows.
msa_concatenate_allocates(aggregate_msa) ==
    IsNull(aggregate_msa.seqs) \/ aggregate_msa.alloc_len = 0

\* msa_concatenate writes row j up to index length + source length (the
\* terminator) without looking at the storage the row actually has.
msa_concatenate_ub(aggregate_msa, source_msa) ==
    /\ ~msa_concatenate_allocates(aggregate_msa)
    /\ aggregate_msa.length + source_msa.length <= aggregate_msa.alloc_len
    /\ \E j \in 1..aggregate_msa.nseqs :
          aggregate_msa.length + source_msa.length + 1 > aggregate_msa.row_alloc[j]

----------------------------------------------------------------------------
(* Column permutation *)

\* The permutations of 0..n-1, as sequences: what permute() may return.
Perms(n) ==
    { f \in [1..n -> 0..(n - 1)] : \A i, j \in 1..n : f[i] = f[j] => i = j }

\* msa_permute(msa) with the permutation that permute() drew
msa_permute(m, rand_perm) ==
    LET m1 == IF IsNull(m.seqs) /\ ~IsNull(m.ss) THEN ss_free(ss_to_msa(m)) ELSE m
        tmpseq == Deref(m1.seqs)
    IN  [m1 EXCEPT !.seqs = Ptr([i \in 1..m1.nseqs |->
                       [j \in 1..m1.length |-> tmpseq[i][rand_perm[j] + 1]]])]

----------------------------------------------------------------------------
(* Masking of long gap runs *)

\* The inner loop of msa_mask_macro_indels without its test on the run's
\* length: the len positions before i (0-based) are overwritten.
mask_gap_run_any_length(row, i, len, k, missing) ==
    [j \in 1..Len(row) |-> IF i - len <= j - 1 /\ j - 1 < i THEN missing[1] ELSE row[j]]

\* if (len > k) for (j = i - len; j < i; j++) seqs[seq][j] = missing[0]
mask_gap_run(row, i, len, k, missing) ==
    IF len > k
    THEN [j \in 1..Len(row) |-> IF i - len <= j - 1 /\ j - 1 < i THEN missing[1] ELSE row[j]]
    ELSE row

\* The scan of one row in msa_mask_macro_indels, from position i (0-based)
\* with len gap characters counted so far, and what follows the loop.
RECURSIVE mask_row(_, _, _, _, _, _, _)
mask_row(row, length, k, missing, i, len, prev_is_gap) ==
    IF i >= length
    THEN IF prev_is_gap THEN mask_gap_run(row, i, len, k, missing) ELSE row
    ELSE IF row[i + 1] = GAP_CHAR
         THEN mask_row(row, length, k, missing, i + 1, len + 1, TRUE)
         ELSE IF prev_is_gap
              THEN mask_row(mask_gap_run(row, i, len, k, missing), length, k, missing,
                            i + 1, 0, FALSE)
              ELSE mask_row(row, length, k, missing, i + 1, len, prev_is_gap)

\* msa_mask_macro_indels dies without explicit rows and without an ordered
\* compressed view.
msa_mask_macro_indels_aborts(m) ==
    IsNull(m.seqs) /\ (IsNull(m.ss) \/ ~Deref(m.ss).ordered)

\* msa_mask_macro_indels(msa, k, refseq)
msa_mask_macro_indels(m, k, refseq) ==
    LET e == IF IsNull(m.seqs) THEN ss_to_msa(m) ELSE m
        rows == [seq \in 1..e.nseqs |->
                   IF seq - 1 = refseq - 1 THEN Deref(e.seqs)[seq]
                   ELSE mask_row(Deref(e.seqs)[seq], e.length, k, e.missing, 0, 0, FALSE)]
        masked == [e EXCEPT !.seqs = Ptr(rows)]
    IN  IF ~IsNull(m.ss)
        THEN ss_from_msas(ss_free(masked), Deref(m.ss).tuple_size, TRUE)
        ELSE masked

----------------------------------------------------------------------------
(* Row reordering *)

\* msa_get_seq_idx(msa, name): 0-based index of the first row so named, -1
\* if there is none.
msa_get_seq_idx(m, name) ==
    IF \E i \in 1..m.nseqs : m.names[i] = name
    THEN (CHOOSE i \in 1..m.nseqs :
             /\ m.names[i] = name
             /\ \A k \in 1..(i - 1) : m.names[k] # name) - 1
    ELSE -1

new_to_old(m, target_order) ==
    [i \in 1..Len(target_order) |-> msa_get_seq_idx(m, target_order[i])]

msa_reorder_rows_aborts_on_repeats(m, target_order) ==
    LET n2o == new_to_old(m, target_order)
    IN  \E i, k \in 1..Len(target_order) : i < k /\ n2o[i] >= 0 /\ n2o[i] = n2o[k]

\* assert(covered[new_to_old[i]] == 0), and the exit(1) on a row whose name
\* the target order does not hold.
msa_reorder_rows_aborts(m, target_order) ==
    LET n2o == new_to_old(m, target_order)
    IN  \/ \E i, k \in 1..Len(target_order) : i < k /\ n2o[i] >= 0 /\ n2o[i] = n2o[k]
        \/ \E r \in 0..(m.nseqs - 1) : \A i \in 1..Len(target_order) : n2o[i] # r

\* ss_reorder_rows(msa, new_to_old, new_nseqs): the rows of the compressed
\* view in the new order, a new row holding missing data only.
ss_reorder_rows(m, n2o, new_nseqs) ==
    LET s == Deref(m.ss)
    IN  [m EXCEPT !.ss = Ptr([s EXCEPT !.data =
            [i \in 1..new_nseqs |->
                IF n2o[i] >= 0 THEN s.data[n2o[i] + 1]
                ELSE [j \in 1..m.length |-> m.missing[1]]]])]

\* msa_reorder_rows(msa, target_order)
msa_reorder_rows(m, target_order) ==
    LET n2o == new_to_old(m, target_order)
        n   == Len(target_order)
        m1  == IF ~IsNull(m.seqs) /\ ~IsNull(m.ss) THEN ss_free(m) ELSE m
        m2  == [m1 EXCEPT !.names = [i \in 1..n |->
                   IF n2o[i] >= 0 THEN m1.names[n2o[i] + 1] ELSE target_order[i]]]
        m3  == IF ~IsNull(m2.seqs)
               THEN [m2 EXCEPT
                       !.seqs = Ptr([i \in 1..n |->
                           IF n2o[i] >= 0 THEN Deref(m2.seqs)[n2o[i] + 1]
                           ELSE [j \in 1..m2.length |-> m2.missing[1]]]),
                       !.row_alloc = [i \in 1..n |->
                           IF n2o[i] >= 0 THEN m2.row_alloc[n2o[i] + 1]
                           ELSE m2.length + 1]]
               ELSE ss_reorder_rows(m2, n2o, n)
    IN  [m3 EXCEPT !.nseqs = n]

----------------------------------------------------------------------------
(* Coordinate maps *)

\* The scan of msa_build_coord_map from column i (0-based) on; j counts the
\* non-gap characters seen.
RECURSIVE build_coord_map_loop(_, _, _, _, _, _, _)
build_coord_map_loop(m, refseq, i, j, last_char_gap, msa_list, seq_list) ==
    IF i >= m.length
    THEN [ msa_list |-> msa_list, seq_list |-> seq_list,
           msa_len |-> m.length, seq_len |-> j ]
    ELSE IF msa_get_char(m, refseq - 1, i) = GAP_CHAR
    THEN build_coord_map_loop(m, refseq, i + 1, j, TRUE, msa_list, seq_list)
    ELSE IF last_char_gap
    THEN build_coord_map_loop(m, refseq, i + 1, j + 1, FALSE,
                              Append(msa_list, i + 1), Append(seq_list, j + 1))
    ELSE build_coord_map_loop(m, refseq, i + 1, j + 1, FALSE, msa_list, seq_list)

\* msa_build_coord_map(msa, refseq), refseq 1-based
msa_build_coord_map(m, refseq) ==
    build_coord_map_loop(m, refseq, 0, 0, TRUE, << >>, << >>)

\* lst_bsearch_int(lst, val) on an ascending list: the 0-based index of the
\* last element not larger than val, -1 if there is none.
lst_bsearch_int(lst, val) ==
    IF \E k \in 1..Len(lst) : lst[k] <= val
    THEN (CHOOSE k \in 1..Len(lst) :
             /\ lst[k] <= val
             /\ \A l \in (k + 1)..Len(lst) : lst[l] > val) - 1
    ELSE -1

msa_map_seq_to_msa_anchor(mp, seq_pos) ==
    IF seq_pos < 1 \/ seq_pos > mp.seq_len THEN -1
    ELSE mp.msa_list[lst_bsearch_int(mp.seq_list, seq_pos) + 1]

msa_map_seq_to_msa_unbounded(mp, seq_pos) ==
    IF seq_pos < 1 \/ Len(mp.seq_list) = 0 THEN -1
    ELSE LET idx == lst_bsearch_int(mp.seq_list, seq_pos)
         IN  mp.msa_list[idx + 1] + (seq_pos - mp.seq_list[idx + 1])

\* msa_map_seq_to_msa(map, seq_pos)
msa_map_seq_to_msa(mp, seq_pos) ==
    IF seq_pos < 1 \/ seq_pos > mp.seq_len THEN -1
    ELSE LET idx == lst_bsearch_int(mp.seq_list, seq_pos)
             prec_match_msa_pos == mp.msa_list[idx + 1]
             prec_match_seq_pos == mp.seq_list[idx + 1]
         IN  prec_match_msa_pos + (seq_pos - prec_match_seq_pos)

msa_map_msa_to_seq_unclamped(mp, msa_pos) ==
    IF msa_pos < 1 \/ msa_pos > mp.msa_len THEN -1
    ELSE LET idx == lst_bsearch_int(mp.msa_list, msa_pos)
         IN  IF idx < 0 THEN -1
             ELSE mp.seq_list[idx + 1] + (msa_pos - mp.msa_list[idx + 1])

\* msa_map_msa_to_seq(map, msa_pos)
msa_map_msa_to_seq(mp, msa_pos) ==
    IF msa_pos < 1 \/ msa_pos > mp.msa_len THEN -1
    ELSE LET idx == lst_bsearch_int(mp.msa_list, msa_pos)
         IN  IF idx < 0 THEN -1
             ELSE LET prec_match_msa_pos == mp.msa_list[idx + 1]
                      prec_match_seq_pos == mp.seq_list[idx + 1]
                      next_match_seq_pos ==
                          IF idx < Len(mp.seq_list) - 1
                          THEN mp.seq_list[idx + 2]
                          ELSE mp.seq_len + 1
                      seq_pos == prec_match_seq_pos + (msa_pos - prec_match_msa_pos)
                  IN  IF seq_pos >= next_match_seq_pos
                      THEN next_match_seq_pos - 1
                      ELSE seq_pos

----------------------------------------------------------------------------
(* Cleaning of coding alignments *)

\* str_equals_nocase_charstr(s, "MSA"): equality without regard to case,
\* for the names that occur.
str_equals_nocase_charstr(s, cstr) ==
    LET lower(x) == IF x \in { "MSA", "Msa", "msa" } THEN "msa" ELSE x
    IN  lower(s) = lower(cstr)

\* gff_ungroup(gff): the groups of the set are freed.
gff_ungroup(set) == [ set EXCEPT !.groups = NULL ]

\* msa_map_seq_to_seq(from_map, to_map, coord); a NULL map stands for the
\* frame of the whole alignment.
msa_map_seq_to_seq(from_map, to_map, coord) ==
    LET msa_coord == IF IsNull(from_map) THEN coord
                     ELSE msa_map_seq_to_msa(Deref(from_map), coord)
    IN  IF msa_coord = -1 THEN -1
        ELSE IF IsNull(to_map) THEN msa_coord
        ELSE msa_map_msa_to_seq(Deref(to_map), msa_coord)

\* Lines 759-763 of msa_map_gff_coords: maps[seq], built when first needed
\* from the alignment, which does not change meanwhile; NULL for frame 0.
gff_frame_map(m, seq) ==
    IF seq > 0 THEN Ptr(msa_build_coord_map(m, seq)) ELSE NULL

\* Lines 737-758: the frame inferred from the feature's sequence name.  cur
\* is the frame in use, prev_name the name last looked up.
gff_infer_seq(m, feat, cur, prev_name) ==
    IF str_equals_nocase_charstr(feat.seqname, "MSA")
    THEN [ seq |-> 0, prev_name |-> prev_name, dies |-> FALSE ]
    ELSE IF IsNull(prev_name) \/ Deref(prev_name) # feat.seqname
    THEN IF msa_get_seq_idx(m, feat.seqname) = -1
         THEN [ seq |-> -1, prev_name |-> prev_name, dies |-> TRUE ]
         ELSE [ seq |-> msa_get_seq_idx(m, feat.seqname) + 1,
                prev_name |-> Ptr(feat.seqname), dies |-> FALSE ]
    ELSE [ seq |-> cur, prev_name |-> prev_name, dies |-> FALSE ]

\* Lines 794-803: the feature types whose length is kept.
gff_lanchor(feat) ==
    feat.feature \in { "5'splice", "start_codon", "stop_codon", "cds3'ss" }

gff_ranchor(feat) ==
    ~gff_lanchor(feat) /\ feat.feature \in { "3'splice", "cds5'ss", "prestart" }

\* Lines 790-809: a feature whose span has changed gets its former span
\* back from its anchored end, if its type is anchored.
gff_keep_span(feat, orig_span) ==
    IF feat.end - feat.start = orig_span THEN feat
    ELSE IF (gff_lanchor(feat) /\ feat.strand = "+") \/ (gff_ranchor(feat) /\ feat.strand = "-")
    THEN [ feat EXCEPT !.end = feat.start + orig_span ]
    ELSE IF (gff_ranchor(feat) /\ feat.strand = "+") \/ (gff_lanchor(feat) /\ feat.strand = "-")
    THEN [ feat EXCEPT !.start = feat.end - orig_span ]
    ELSE feat

\* Lines 776-781: the mapped coordinates s and e of a kept feature, an
\* endpoint out of range set to the boundary of the target frame.
gff_truncate(m, feat, s, e, to_map, offset) ==
    [ feat EXCEPT
        !.start = (IF s < 0 THEN 1 ELSE s) + offset,
        !.end = IF e < 0
                THEN (IF ~IsNull(to_map) THEN Deref(to_map).seq_len ELSE m.length) + offset
                ELSE e + offset ]

\* Lines 765-809 for one feature: the features to keep, none or one.
gff_map_feature(m, feat, from_map, to_map, offset) ==
    IF /\ msa_map_seq_to_seq(from_map, to_map, feat.start) < 0
       /\ msa_map_seq_to_seq(from_map, to_map, feat.end) < 0
    THEN << >>
    ELSE << gff_keep_span(
              gff_truncate(m, feat,
                           msa_map_seq_to_seq(from_map, to_map, feat.start),
                           msa_map_seq_to_seq(from_map, to_map, feat.end),
                           to_map, offset),
              feat.end - feat.start) >>

\* The loop of msa_map_gff_coords from feature i (1-based) on, for from_seq
\* different from to_seq: fseq and tseq are the frames in use, keepers the
\* features kept so far.
RECURSIVE gff_map_loop(_, _, _, _, _, _, _, _, _, _)
gff_map_loop(m, feats, from_seq, to_seq, offset, i, fseq, tseq, prev_name, keepers) ==
    IF i > Len(feats) THEN [ features |-> keepers, dies |-> FALSE ]
    ELSE LET inf == IF from_seq = -1 THEN gff_infer_seq(m, feats[i], fseq, prev_name)
                    ELSE IF to_seq = -1 THEN gff_infer_seq(m, feats[i], tseq, prev_name)
                    ELSE [ seq |-> -1, prev_name |-> prev_name, dies |-> FALSE ]
             f == IF from_seq = -1 THEN inf.seq ELSE fseq
             t == IF from_seq # -1 /\ to_seq = -1 THEN inf.seq ELSE tseq
         IN  IF inf.dies THEN [ features |-> keepers, dies |-> TRUE ]
             ELSE gff_map_loop(m, feats, from_seq, to_seq, offset, i + 1, f, t,
                               inf.prev_name,
                               keepers \o gff_map_feature(m, feats[i], gff_frame_map(m, f),
                                                          gff_frame_map(m, t), offset))

\* msa_map_gff_coords dies: a feature names a sequence the alignment lacks.
msa_map_gff_coords_dies(m, set, from_seq, to_seq, offset) ==
    /\ from_seq # to_seq
    /\ gff_map_loop(m, set.features, from_seq, to_seq, offset, 1,
                    from_seq, to_seq, NULL, << >>).dies

\* msa_map_gff_coords(msa, gff, from_seq, to_seq, offset, cm): the set
\* afterwards.  With from_seq = to_seq every feature is shifted and the loop
\* goes on to the next without adding it to the keepers.
msa_map_gff_coords(m, set, from_seq, to_seq, offset) ==
    LET kept == IF from_seq = to_seq THEN << >>
                ELSE gff_map_loop(m, set.features, from_seq, to_seq, offset, 1,
                                  from_seq, to_seq, NULL, << >>).features
        mapped == [ set EXCEPT !.features = kept ]
    IN  IF ~IsNull(set.groups) THEN gff_ungroup(mapped) ELSE mapped

\* msa_sub_alignment ends in assert or die: the range is empty, or the
\* list names a row the alignment does not have.
msa_sub_alignment_aborts(m, seqlist, include, start_col, end_col) ==
    \/ end_col - start_col <= 0
    \/ IsNull(m.seqs) /\ IsNull(m.ss)
    \/ /\ ~IsNull(seqlist)
       /\ \E i \in 1..Len(Deref(seqlist)) :
            Deref(seqlist)[i] < 0 \/ Deref(seqlist)[i] >= m.nseqs

\* include_list of msa_sub_alignment: the rows listed, the rows not listed
\* in ascending order, or every row; 0-based indices.
sub_include_list(m, seqlist, include) ==
    IF ~IsNull(seqlist) /\ include THEN Deref(seqlist)
    ELSE LET listed == IF IsNull(seqlist) THEN { }
                       ELSE { Deref(seqlist)[i] : i \in 1..Len(Deref(seqlist)) }
             rows == KeptCols(m.nseqs, LAMBDA i : (i - 1) \notin listed)
         IN  [ p \in 1..Len(rows) |-> rows[p] - 1 ]

\* msa->seqs[seq][col] as msa_sub_alignment reads it, seq and col 0-based:
\* a column of the alignment, the terminator behind the last column, or
\* whatever lies outside the row's storage.
sub_read(m, seq, col, g) ==
    IF col >= 0 /\ col < m.length THEN Deref(m.seqs)[seq + 1][col + 1]
    ELSE IF col = m.length /\ col < m.row_alloc[seq + 1] THEN ""
    ELSE g.char

\* msa_sub_alignment reads outside the storage of a row or of the
\* categories array.
msa_sub_alignment_ub(m, seqlist, include, start_col, end_col) ==
    /\ ~msa_sub_alignment_aborts(m, seqlist, include, start_col, end_col)
    /\ \/ /\ start_col < 0 \/ end_col > m.length + 1
          /\ sub_include_list(m, seqlist, include) # << >>
       \/ /\ m.ncats >= 0 /\ ~IsNull(m.categories)
          /\ start_col < 0 \/ end_col > Len(Deref(m.categories))

\* msa_sub_alignment(msa, seqlist, include, start_col, end_col) for an
\* alignment with explicit rows: the alignment returned.
msa_sub_alignment(m, seqlist, include, start_col, end_col, g) ==
    LET include_list == sub_include_list(m, seqlist, include)
        new_len == end_col - start_col
        new_seqs == [ i \in 1..Len(include_list) |->
                        [ j \in 1..new_len |->
                            sub_read(m, include_list[i], start_col + j - 1, g) ] ]
        new_names == [ i \in 1..Len(include_list) |-> m.names[include_list[i] + 1] ]
        new_msa == msa_new(Ptr(new_seqs), new_names, Len(include_list), new_len)
        cats == IF m.ncats >= 0 /\ ~IsNull(m.categories)
                THEN [ new_msa EXCEPT
                         !.ncats = m.ncats,
                         !.categories =
                            Ptr([ j \in 1..new_len |->
                                    IF start_col + j >= 1
                                    THEN CatRead(Deref(m.categories), start_col + j, g.int)
                                    ELSE g.int ]) ]
                ELSE new_msa
    IN  [ idx_offset |-> start_col ] @@ cats

KEEP_STOP_CODONS == 0

\* The terminator of a row's storage, read at index length.
NUL == ""

toupper(c) ==
    CASE c = "a" -> "A"
      [] c = "c" -> "C"
      [] c = "g" -> "G"
      [] c = "t" -> "T"
      [] c = "n" -> "N"
      [] OTHER -> c

\* (int)c for the characters of the model.
ascii(c) ==
    CASE c = "#" -> 35 [] c = "*" -> 42 [] c = GAP_CHAR -> 45 [] c = "." -> 46
      [] c = "A" -> 65 [] c = "C" -> 67 [] c = "G" -> 71 [] c = "N" -> 78
      [] c = "T" -> 84 [] c = "X" -> 88 [] c = "a" -> 97

\* The entries of inv_alphabet and is_missing the model keeps: those of its
\* characters, and the first ones, which msa_reset_alphabet clears.
TableCodes == 0..3 \cup { 35, 42, 45, 46, 65, 67, 71, 78, 84, 88, 97 }

DEFAULT_ALPHABET == << "A", "C", "G", "T" >>

\* The loops that fill inv_alphabet and is_missing from the alphabet and
\* the missing-data characters (msa_new, msa_reset_alphabet): the entries
\* not set keep what `inv` and `mis` hold.
fill_tables(alphabet, missing, inv, mis) ==
    [ alphabet |-> alphabet,
      missing |-> missing,
      inv_alphabet |->
          [ k \in TableCodes |->
              IF \E i \in 1..Len(alphabet) : ascii(alphabet[i]) = k
              THEN (CHOOSE i \in 1..Len(alphabet) :
                      /\ ascii(alphabet[i]) = k
                      /\ \A l \in (i + 1)..Len(alphabet) : ascii(alphabet[l]) # k) - 1
              ELSE inv[k] ],
      is_missing |->
          [ k \in TableCodes |->
              IF \E i \in 1..Len(missing) : ascii(missing[i]) = k THEN 1 ELSE mis[k] ] ]

\* msa_new, lines 73-90: the alphabet passed in or the default one, and
\* the two tables, every entry of which is set.
msa_new_alphabet(alphabet) ==
    fill_tables(IF IsNull(alphabet) THEN DEFAULT_ALPHABET ELSE Deref(alphabet),
                DEFAULT_MDATA_CHARS,
                [ k \in TableCodes |-> -1 ], [ k \in TableCodes |-> 0 ])

\* msa_remove_N_from_alph(msa)
msa_remove_N_from_alph(m) ==
    [ m EXCEPT !.alphabet = SelectSeq(m.alphabet, LAMBDA c : c # "N"),
               !.inv_alphabet = [ m.inv_alphabet EXCEPT ![ascii("N")] = -1 ] ]

\* msa_reset_alphabet(msa, newalph): the entries 0..nchars-1 of the tables
\* are cleared, then the tables are filled.
msa_reset_alphabet(m, newalph) ==
    fill_tables(newalph, m.missing,
                [ k \in TableCodes |-> IF k < Len(newalph) THEN -1 ELSE m.inv_alphabet[k] ],
                [ k \in TableCodes |-> IF k < Len(newalph) THEN 0 ELSE m.is_missing[k] ])
      @@ m

\* The first loop of msa_toupper from alphabet[i] on (i 0-based): out is
\* alphabet[0..j-1] as written so far.
RECURSIVE toupper_alphabet(_, _, _, _)
toupper_alphabet(alphabet, inv, i, out) ==
    IF i >= Len(alphabet) THEN [ alphabet |-> out, inv_alphabet |-> inv ]
    ELSE LET c == alphabet[i + 1]
         IN  IF c = "a"
             THEN LET removed == [ inv EXCEPT ![ascii(c)] = -1 ]
                  IN  IF removed[ascii(toupper(c))] < 0
                      THEN toupper_alphabet(alphabet,
                               [ removed EXCEPT ![ascii(toupper(c))] = Len(out) ],
                               i + 1, Append(out, toupper(c)))
                      ELSE toupper_alphabet(alphabet, removed, i + 1, out)
             ELSE toupper_alphabet(alphabet, inv, i + 1, Append(out, c))

\* msa_toupper(msa): the alphabet, then the characters of the compressed
\* view and of the rows.
msa_toupper(m) ==
    [ m EXCEPT
        !.alphabet = toupper_alphabet(m.alphabet, m.inv_alphabet, 0, << >>).alphabet,
        !.inv_alphabet = toupper_alphabet(m.alphabet, m.inv_alphabet, 0, << >>).inv_alphabet,
        !.ss = IF IsNull(m.ss) THEN NULL
               ELSE Ptr([ Deref(m.ss) EXCEPT !.data =
                            [ j \in 1..m.nseqs |-> [ i \in 1..m.length |->
                                toupper(Deref(m.ss).data[j][i]) ] ] ]),
        !.seqs = IF IsNull(m.seqs) THEN NULL
                 ELSE Ptr([ j \in 1..m.nseqs |-> [ i \in 1..m.length |->
                                toupper(Deref(m.seqs)[j][i]) ] ]) ]

\* isalpha(c) for the characters of the model.
isalpha(c) == c \in { "A", "C", "G", "N", "T", "X", "a" }

\* msa_alph_has_lowercase(msa)
msa_alph_has_lowercase(m) == \E i \in 1..Len(m.alphabet) : m.alphabet[i] = "a"

\* Lines 158-170 of msa_new_from_file for the character c of a line: the
\* character to store, or the end in die().
file_base(m, do_toupper, c) ==
    LET base == IF do_toupper THEN toupper(c) ELSE c
    IN  IF base = "." /\ m.inv_alphabet[ascii(".")] = -1
        THEN [ base |-> m.missing[1], dies |-> FALSE ]
        ELSE IF /\ base # GAP_CHAR
                /\ m.is_missing[ascii(base)] = 0
                /\ m.inv_alphabet[ascii(base)] = -1
        THEN [ base |-> "N", dies |-> ~isalpha(base) ]
        ELSE [ base |-> base, dies |-> FALSE ]

\* The loop at lines 152-173 for one row: rest holds the lines not yet
\* read, line the line read last, seq the characters stored so far.  At the
\* end of the file fgets leaves the line as it is and the loop scans it
\* again; with nothing to store in it the loop never ends.  The first line
\* is there to be read, so what the buffer held before is never scanned.
RECURSIVE file_read_row(_, _, _, _, _, _)
file_read_row(m, do_toupper, len, rest, line, seq) ==
    IF Len(seq) >= len THEN [ status |-> "ok", seq |-> seq ]
    ELSE LET l == IF rest = << >> THEN line ELSE Head(rest)
         IN  IF \E k \in 1..Len(l) : file_base(m, do_toupper, l[k]).dies
             THEN [ status |-> "abort", seq |-> seq ]
             ELSE IF l = << >> /\ rest = << >>
             THEN [ status |-> "hang", seq |-> seq ]
             ELSE file_read_row(m, do_toupper, len,
                                IF rest = << >> THEN rest ELSE Tail(rest), l,
                                seq \o [ k \in 1..Len(l) |->
                                           file_base(m, do_toupper, l[k]).base ])

\* msa_read_fasta(F, alphabet) for a file of description lines, each
\* followed by its sequence lines: the alignment, or the end in die().
msa_read_fasta(F, alphabet) ==
    LET t == msa_new_alphabet(alphabet)
        do_toupper == ~msa_alph_has_lowercase(t)
        strs == [ i \in 1..Len(F.rows) |-> Flatten(F.rows[i].lines) ]
        maxlen == CHOOSE n \in { 0 } \cup { Len(strs[i]) : i \in 1..Len(strs) } :
                     \A i \in 1..Len(strs) : Len(strs[i]) <= n
        scan(c) == LET up == IF do_toupper THEN toupper(c) ELSE c
                       dot == IF up = "." /\ t.inv_alphabet[ascii(".")] = -1
                              THEN t.missing[1] ELSE up
                   IN  IF isalpha(dot) /\ t.inv_alphabet[ascii(dot)] = -1
                       THEN "N" ELSE dot
        seqs == [ i \in 1..Len(strs) |->
                    [ j \in 1..maxlen |->
                        IF j <= Len(strs[i]) THEN scan(strs[i][j]) ELSE scan(GAP_CHAR) ] ]
    IN  [ status |-> IF Len(F.rows) = 0 THEN "abort" ELSE "ok",
          ub |-> FALSE,
          msa |-> t @@ msa_new(Ptr(seqs), [ i \in 1..Len(strs) |-> F.rows[i].name ],
                               Len(strs), maxlen) ]

\* msa_new_from_file(F, format, alphabet) for the formats FASTA, PHYLIP and
\* MPM and a file that declares one row: the alignment built, how the call
\* ended, and whether a character was written outside the len + 1
\* characters of the row's storage.
msa_new_from_file(F, alphabet) ==
    IF F.format = "FASTA" THEN msa_read_fasta(F, alphabet)
    ELSE LET t == msa_new_alphabet(alphabet)
             read == file_read_row(t, ~msa_alph_has_lowercase(t), F.len,
                                   F.rows[1].lines, << >>, << >>)
         IN  [ status |-> read.status,
               ub |-> read.status = "ok" /\ Len(read.seq) > F.len,
               msa |-> IF read.status # "ok" THEN NULL
                       ELSE t @@ msa_new(Ptr(<< SubSeq(read.seq, 1, F.len) >>),
                                         << F.rows[1].name >>, F.nseqs, F.len) ]

\* seq[i] of a row or of tmp_codon, i 0-based
RowAt(seq, i) == IF i >= 0 /\ i < Len(seq) THEN seq[i + 1] ELSE NUL

IS_START(seq, i) ==
    /\ toupper(RowAt(seq, i)) = "A"
    /\ toupper(RowAt(seq, i + 1)) = "T"
    /\ toupper(RowAt(seq, i + 2)) = "G"

IS_STOP_without_TAA(seq, i) ==
    /\ toupper(RowAt(seq, i)) = "T"
    /\ \/ /\ toupper(RowAt(seq, i + 1)) = "A"
          /\ toupper(RowAt(seq, i + 2)) = "G"
       \/ /\ toupper(RowAt(seq, i + 1)) = "G"
          /\ toupper(RowAt(seq, i + 2)) = "A"

IS_STOP(seq, i) ==
    /\ toupper(RowAt(seq, i)) = "T"
    /\ \/ /\ toupper(RowAt(seq, i + 1)) = "A"
          /\ toupper(RowAt(seq, i + 2)) \in { "A", "G" }
       \/ /\ toupper(RowAt(seq, i + 1)) = "G"
          /\ toupper(RowAt(seq, i + 2)) = "A"

\* for (; i < msa->length && ref[i] == GAP_CHAR; i++);
RECURSIVE coding_skip_gaps(_, _, _)
coding_skip_gaps(ref, i, length) ==
    IF i < length /\ RowAt(ref, i) = GAP_CHAR
    THEN coding_skip_gaps(ref, i + 1, length)
    ELSE i

\* The search for the start codon of the reference row from pos on;
\* s = [i, beg, beg_set, tmp_codon], beg_set telling whether beg was assigned.
RECURSIVE find_start(_, _, _, _)
find_start(ref, length, pos, s) ==
    IF pos >= 3 THEN s
    ELSE LET i == coding_skip_gaps(ref, s.i, length)
         IN  IF i = length THEN [s EXCEPT !.i = i]
             ELSE find_start(ref, length, pos + 1,
                    [ i |-> i + 1,
                      beg |-> IF pos = 0 THEN i ELSE s.beg,
                      beg_set |-> s.beg_set \/ pos = 0,
                      tmp_codon |-> [s.tmp_codon EXCEPT ![pos + 1] = RowAt(ref, i)] ])

\* ref[i] in the backward search: outside the row it is whatever is there.
RefRead(ref, i, garbage) ==
    IF i >= 0 /\ i <= Len(ref) THEN RowAt(ref, i) ELSE garbage

\* for (; i > beg && ref[i] == GAP_CHAR; i--);
RECURSIVE coding_skip_gaps_back(_, _, _, _)
coding_skip_gaps_back(ref, i, beg, garbage) ==
    IF i > beg /\ RefRead(ref, i, garbage) = GAP_CHAR
    THEN coding_skip_gaps_back(ref, i - 1, beg, garbage)
    ELSE i

\* The search for the stop codon of the reference row, backwards, from pos
\* on; s = [i, end, tmp_codon].  It stops early with i = beg.
RECURSIVE find_stop(_, _, _, _, _)
find_stop(ref, beg, pos, s, garbage) ==
    IF pos < (IF KEEP_STOP_CODONS # 0 THEN 0 ELSE -1) THEN s
    ELSE LET i == coding_skip_gaps_back(ref, s.i, beg, garbage)
         IN  IF i = beg THEN [s EXCEPT !.i = i]
             ELSE find_stop(ref, beg, pos - 1,
                    [ i |-> IF pos >= 0 THEN i - 1 ELSE i,
                      end |-> IF (pos = 2 /\ KEEP_STOP_CODONS # 0) \/ pos = -1
                              THEN i ELSE s.end,
                      tmp_codon |-> IF pos >= 0
                                    THEN [s.tmp_codon EXCEPT
                                            ![pos + 1] = RefRead(ref, i, garbage)]
                                    ELSE s.tmp_codon ],
                    garbage)

ColHasGap(rows, nseqs, i) == \E j \in 1..nseqs : RowAt(rows[j], i) = GAP_CHAR

\* The scan for the next gapless column of codons in frame with the
\* reference row; s = [i, frame, gapless_codon_col, ngaps].  It returns at
\* the third column of the codon, or with i > end.
RECURSIVE next_codon_col(_, _, _, _, _)
next_codon_col(rows, nseqs, refseq, end, s) ==
    IF s.i > end THEN s
    ELSE LET ngaps == [j \in 1..nseqs |->
                         s.ngaps[j] + IF RowAt(rows[j], s.i) = GAP_CHAR THEN 1 ELSE 0]
             gapless == s.gapless_codon_col /\ ~ColHasGap(rows, nseqs, s.i)
             i == s.i + 1
             step == RowAt(rows[refseq + 1], i) # GAP_CHAR
         IN  IF gapless /\ s.frame = 2
             THEN [s EXCEPT !.ngaps = ngaps, !.gapless_codon_col = gapless]
             ELSE next_codon_col(rows, nseqs, refseq, end,
                    [ i |-> i,
                      frame |-> IF step THEN (s.frame + 1) % 3 ELSE s.frame,
                      gapless_codon_col |-> (step /\ s.frame = 2) \/ gapless,
                      ngaps |-> ngaps ])

\* find next col with gap
RECURSIVE next_gap_col(_, _, _, _)
next_gap_col(rows, nseqs, i, end) ==
    IF i <= end /\ ~ColHasGap(rows, nseqs, i)
    THEN next_gap_col(rows, nseqs, i + 1, end)
    ELSE i

\* The check of a block for in-frame stop codons from codon j on: the block
\* is cut before the first one.
RECURSIVE scan_stops(_, _, _, _, _, _)
scan_stops(rows, nseqs, j, end, blk_end, trunc) ==
    IF ~(j <= blk_end - 2 /\ trunc = 0)
    THEN [ trunc |-> trunc, blk_end |-> blk_end ]
    ELSE IF KEEP_STOP_CODONS # 0 /\ j = end - 2
    THEN [ trunc |-> trunc, blk_end |-> blk_end ]
    ELSE IF \E k \in 1..nseqs : IS_STOP(rows[k], j)
    THEN LET t == IF KEEP_STOP_CODONS # 0 THEN j + 2 ELSE j - 1
         IN  scan_stops(rows, nseqs, j + 3, end, t, t)
    ELSE scan_stops(rows, nseqs, j + 3, end, blk_end, trunc)

\* The block whose first codon ends at column i, cut to whole codons, with
\* the column and the frame the scan goes on from.
block_extent(rows, refseq, blk_beg, blk_size) ==
    [ blk_beg |-> blk_beg,
      blk_size |-> blk_size,
      blk_end |-> blk_beg + blk_size * 3 - 1,
      i |-> blk_beg + blk_size * 3,
      frame |-> IF RowAt(rows[refseq + 1], blk_beg + blk_size * 3) # GAP_CHAR
                THEN 0 ELSE 2 ]

\* The check of a block at the end of the reference span alone.
bad_block_stop_only(rows, nseqs, beg, end, blk) ==
    /\ blk.blk_end = end /\ KEEP_STOP_CODONS # 0
    /\ \E j \in 1..nseqs : ~IS_STOP(rows[j], blk.blk_end - 2)

\* A block at the start (the end) of the reference span needs a start (a
\* stop) codon in every row.
bad_block(rows, nseqs, beg, end, blk) ==
    \/ /\ blk.blk_beg = beg
       /\ \E j \in 1..nseqs : ~IS_START(rows[j], blk.blk_beg)
    \/ /\ blk.blk_end = end /\ KEEP_STOP_CODONS # 0
       /\ \E j \in 1..nseqs : ~IS_STOP(rows[j], blk.blk_end - 2)

\* trunc after the check of the rows' frames against the previous retained
\* block
frame_check(s, nseqs, refseq, ngaps) ==
    IF Len(s.block_begs) > 0
         /\ \E j \in 1..nseqs : ngaps[j] % 3 # ngaps[refseq + 1] % 3
    THEN s.block_ends[Len(s.block_ends)] + 1
    ELSE s.trunc

\* The state of the loop after a block that passed the checks; sc is the
\* result of scan_stops.
block_done(s, nseqs, ngaps, blk, sc) ==
    [ i |-> blk.i,
      frame |-> blk.frame,
      ngaps |-> IF sc.trunc # 0 THEN ngaps ELSE [j \in 1..nseqs |-> 0],
      block_begs |-> IF sc.trunc = 0 \/ sc.trunc > blk.blk_beg
                     THEN Append(s.block_begs, blk.blk_beg) ELSE s.block_begs,
      block_ends |-> IF sc.trunc = 0 \/ sc.trunc > blk.blk_beg
                     THEN Append(s.block_ends, sc.blk_end) ELSE s.block_ends,
      trunc |-> sc.trunc ]

\* The loop over the gapless blocks;
\* s = [i, frame, ngaps, block_begs, block_ends, trunc].
RECURSIVE find_blocks(_, _, _, _, _, _)
RECURSIVE find_blocks_at(_, _, _, _, _, _, _)
RECURSIVE find_blocks_in(_, _, _, _, _, _, _, _)
RECURSIVE find_blocks_after(_, _, _, _, _, _)

\* ... after a block was handled: a cut ends the loop.
find_blocks_after(m, refseq, min_ncodons, beg, end, s) ==
    IF s.trunc # 0 THEN s
    ELSE find_blocks(m, refseq, min_ncodons, beg, end, s)

\* ... with the block blk found; ngaps are the gap counts so far.
find_blocks_in(m, refseq, min_ncodons, beg, end, s, ngaps, blk) ==
    IF blk.blk_size < min_ncodons
         \/ bad_block(Deref(m.seqs), m.nseqs, beg, end, blk)
    THEN find_blocks(m, refseq, min_ncodons, beg, end,
           [s EXCEPT !.i = blk.i, !.frame = blk.frame, !.ngaps = ngaps])
    ELSE find_blocks_after(m, refseq, min_ncodons, beg, end,
           block_done(s, m.nseqs, ngaps, blk,
             scan_stops(Deref(m.seqs), m.nseqs, blk.blk_beg, end, blk.blk_end,
                        frame_check(s, m.nseqs, refseq, ngaps))))

\* ... with the result c of next_codon_col
find_blocks_at(m, refseq, min_ncodons, beg, end, s, c) ==
    IF c.i > end
    THEN [s EXCEPT !.i = c.i, !.frame = c.frame, !.ngaps = c.ngaps]
    ELSE find_blocks_in(m, refseq, min_ncodons, beg, end, s, c.ngaps,
           block_extent(Deref(m.seqs), refseq, c.i - 2,
             (next_gap_col(Deref(m.seqs), m.nseqs, c.i + 1, end) - (c.i - 2)) \div 3))

find_blocks(m, refseq, min_ncodons, beg, end, s) ==
    IF s.i > end THEN s
    ELSE find_blocks_at(m, refseq, min_ncodons, beg, end, s,
           next_codon_col(Deref(m.seqs), m.nseqs, refseq, end,
             [ i |-> s.i, frame |-> s.frame,
               gapless_codon_col |-> TRUE, ngaps |-> s.ngaps ]))

\* The columns of the retained blocks of one row, in order.
RECURSIVE coding_blocks(_, _, _)
coding_blocks(row, block_begs, block_ends) ==
    IF block_begs = << >> THEN << >>
    ELSE SubSeq(row, block_begs[1] + 1, block_ends[1] + 1)
           \o coding_blocks(row, Tail(block_begs), Tail(block_ends))

coding_overwrite_always(m, retval, block_begs, block_ends) ==
    LET rows == [l \in 1..m.nseqs |->
                   coding_blocks(Deref(m.seqs)[l], block_begs, block_ends)]
    IN  [m EXCEPT !.seqs = Ptr(rows), !.length = Len(rows[1])]

\* now overwrite alignment with just the acceptable blocks
coding_overwrite(m, retval, block_begs, block_ends) ==
    IF retval # 1
    THEN LET rows == [l \in 1..m.nseqs |->
                        coding_blocks(Deref(m.seqs)[l], block_begs, block_ends)]
         IN  [m EXCEPT !.seqs = Ptr(rows), !.length = Len(rows[1])]
    ELSE m

NoStartMsg == "Reference sequence does not begin with start codon.  "
NoStopMsg == "Reference sequence does not end with stop codon."
NothingLeftMsg == "Nothing left after cleaning."
TruncMsg == "In-frame stop codon or frame shift not in last 20% of alignment.  See approx. position "

\* The end of msa_coding_clean: b is the state the loop over the blocks
\* ended in, rejected tells whether a codon of the reference row was missing.
coding_clean_finish(m, beg, end, no_start, no_stop, b) ==
    [ nothing_left |-> ~(no_start \/ no_stop) /\ b.block_begs = << >>,
      \* trunc < beg + (end - beg + 1) * 0.8
      too_early |-> b.trunc # 0 /\ 5 * (b.trunc - beg) < 4 * (end - beg + 1),
      trunc |-> b.trunc,
      no_start |-> no_start,
      no_stop |-> no_stop,
      block_begs |-> b.block_begs,
      block_ends |-> b.block_ends ]

coding_retval(f) ==
    IF f.no_start \/ f.no_stop \/ f.nothing_left \/ f.too_early THEN 1 ELSE 0

coding_errstr(f) ==
    (IF f.no_start THEN << NoStartMsg >> ELSE << >>)
      \o (IF f.no_stop THEN << NoStopMsg >> ELSE << >>)
      \o (IF f.nothing_left THEN << NothingLeftMsg >> ELSE << >>)
      \o (IF f.too_early THEN << TruncMsg, ToString(f.trunc + 1), "." >> ELSE << >>)

coding_clean_result(m, f, ub_) ==
    [ msa |-> coding_overwrite(m, coding_retval(f), f.block_begs, f.block_ends),
      retval |-> coding_retval(f),
      errstr |-> coding_errstr(f),
      ub |-> ub_ ]

\* ... with the results st of find_start and sp of find_stop
coding_clean_span(m, refseq, min_ncodons, st, sp, no_start, no_stop) ==
    coding_clean_result(m,
      coding_clean_finish(m, st.beg, sp.end, no_start, no_stop,
        IF no_start \/ no_stop
        THEN [ block_begs |-> << >>, block_ends |-> << >>, trunc |-> 0 ]
        ELSE find_blocks(m, refseq, min_ncodons, st.beg, sp.end,
               [ i |-> st.beg, frame |-> 0, ngaps |-> [j \in 1..m.nseqs |-> 0],
                 block_begs |-> << >>, block_ends |-> << >>, trunc |-> 0 ])),
      ~st.beg_set)

\* ... with the result st of find_start
coding_clean_from(m, refseq, min_ncodons, st, sp) ==
    coding_clean_span(m, refseq, min_ncodons, st, sp,
      st.i = m.length \/ ~IS_START(st.tmp_codon, 0),
      sp.i = st.beg \/ ~IS_STOP(sp.tmp_codon, 0))

\* The stop codon is looked for from the last column back to beg.
coding_find_stop(m, refseq, st, garbage) ==
    find_stop(Deref(m.seqs)[refseq + 1], st.beg, 2,
      [ i |-> m.length - 1, end |-> garbage.int, tmp_codon |-> st.tmp_codon ],
      garbage.char)

coding_clean_start(m, refseq, min_ncodons, st, garbage) ==
    coding_clean_from(m, refseq, min_ncodons, st,
                      coding_find_stop(m, refseq, st, garbage))

\* msa_coding_clean(msa, refseq, min_ncodons, errstr), refseq 0-based.
\* garbage = [int, char] is what an unassigned beg or end holds and what a
\* read before the start of the row returns.  The result is the alignment,
\* the return value, the messages appended to errstr, and whether beg was
\* used unassigned.
msa_coding_clean(m, refseq, min_ncodons, garbage) ==
    coding_clean_start(m, refseq, min_ncodons,
      find_start(Deref(m.seqs)[refseq + 1], m.length, 0,
        [ i |-> 0, beg |-> garbage.int, beg_set |-> FALSE,
          tmp_codon |-> << garbage.char, garbage.char, garbage.char >> ]),
      garbage)

----------------------------------------------------------------------------
(* Cleaning of indel artifacts *)

\* The first position from i on (0-based) at which the row holds a gap
\* (gap = TRUE) or no gap (gap = FALSE); length if there is none.
RECURSIVE indel_find(_, _, _, _)
indel_find(row, length, i, gap) ==
    IF i < length /\ ((row[i + 1] = GAP_CHAR) # gap)
    THEN indel_find(row, length, i + 1, gap)
    ELSE i

\* Lines 1589-1592: the up to indel_border bases preceding the indel that
\* starts at i are replaced, from k on.
RECURSIVE indel_mask_before(_, _, _, _, _)
indel_mask_before(row, i, indel_border, mdata_char, k) ==
    IF k <= indel_border /\ i - k >= 0 /\ row[i - k + 1] # GAP_CHAR
    THEN indel_mask_before([row EXCEPT ![i - k + 1] = mdata_char], i, indel_border,
                           mdata_char, k + 1)
    ELSE row

\* Lines 1600-1603: the up to indel_border bases following the indel that
\* ends before i are replaced, from k on.
RECURSIVE indel_mask_after(_, _, _, _, _, _)
indel_mask_after(row, length, i, indel_border, mdata_char, k) ==
    IF k < indel_border /\ i + k < length /\ row[i + k + 1] # GAP_CHAR
    THEN indel_mask_after([row EXCEPT ![i + k + 1] = mdata_char], length, i,
                          indel_border, mdata_char, k + 1)
    ELSE row

\* Lines 1584-1585: for (k = ...; k < i; k++) seqs[j][k] = mdata_char
RECURSIVE indel_mask_short(_, _, _, _)
indel_mask_short(row, i, mdata_char, k) ==
    IF k < i
    THEN indel_mask_short([row EXCEPT ![k + 1] = mdata_char], i, mdata_char, k + 1)
    ELSE row

\* Lines 1582-1593 at the indel that starts at i: a subsequence that began
\* at first_base and is too short is replaced from first_base + indel_border
\* on, of any other the bases preceding the indel.
indel_mask_run(row, i, first_base, indel_border, min_nbases, mdata_char) ==
    IF first_base >= 0 /\ i - first_base < min_nbases
    THEN indel_mask_short(row, i, mdata_char, first_base + indel_border)
    ELSE indel_mask_before(row, i, indel_border, mdata_char, 1)

\* The while (1) loop of the first step for one row, at position i with
\* first_base as it stands.
RECURSIVE indel_mask_row(_, _, _, _, _, _, _)
RECURSIVE indel_mask_row_at(_, _, _, _, _, _, _)
RECURSIVE indel_mask_row_in(_, _, _, _, _, _)

\* ... with the next indel ending before position e of the row masked so far
indel_mask_row_in(row, length, indel_border, min_nbases, mdata_char, e) ==
    IF e = length THEN row
    ELSE indel_mask_row(indel_mask_after(row, length, e, indel_border, mdata_char, 0),
                        length, indel_border, min_nbases, mdata_char, e, e)

\* ... with the next indel starting at position s
indel_mask_row_at(row, length, indel_border, min_nbases, mdata_char, s, first_base) ==
    IF s = length THEN row
    ELSE indel_mask_row_in(
           indel_mask_run(row, s, first_base, indel_border, min_nbases, mdata_char),
           length, indel_border, min_nbases, mdata_char,
           indel_find(row, length, s, FALSE))

indel_mask_row(row, length, indel_border, min_nbases, mdata_char, i, first_base) ==
    indel_mask_row_at(row, length, indel_border, min_nbases, mdata_char,
                      indel_find(row, length, i, TRUE), first_base)

\* The first step of msa_indel_clean (lines 1574-1607): the loop over the
\* rows from row j (1-based) on.
RECURSIVE indel_step1(_, _, _, _, _, _, _)
indel_step1(rows, nseqs, length, indel_border, min_nbases, mdata_char, j) ==
    IF j > nseqs THEN rows
    ELSE indel_step1(
           [ rows EXCEPT ![j] = indel_mask_row(rows[j], length, indel_border, min_nbases,
                                               mdata_char, 0, -1) ],
           nseqs, length, indel_border, min_nbases, mdata_char, j + 1)

\* Lines 1612-1615: column i (1-based) has fewer than min_nseqs characters
\* that are neither gap nor missing data.
indel_empty_col(rows, nseqs, i, min_nseqs, mdata_char) ==
    Cardinality({ j \in 1..nseqs : rows[j][i] # GAP_CHAR /\ rows[j][i] # mdata_char })
      < min_nseqs

\* Lines 1616-1618: the bases of column i (1-based) are replaced, from row
\* j on.
RECURSIVE indel_mask_col(_, _, _, _, _)
indel_mask_col(rows, nseqs, i, mdata_char, j) ==
    IF j > nseqs THEN rows
    ELSE indel_mask_col(
           IF rows[j][i] # GAP_CHAR /\ rows[j][i] # mdata_char
           THEN [ rows EXCEPT ![j][i] = mdata_char ] ELSE rows,
           nseqs, i, mdata_char, j + 1)

\* Lines 1610-1621: the loop over the columns from column i (1-based) on;
\* s = [rows, empty_col].
RECURSIVE indel_mask_cols(_, _, _, _, _, _)
indel_mask_cols(s, nseqs, length, min_nseqs, mdata_char, i) ==
    IF i > length THEN s
    ELSE indel_mask_cols(
           IF indel_empty_col(s.rows, nseqs, i, min_nseqs, mdata_char)
           THEN [ rows |-> indel_mask_col(s.rows, nseqs, i, mdata_char, 1),
                  empty_col |-> Append(s.empty_col, TRUE) ]
           ELSE [ rows |-> s.rows, empty_col |-> Append(s.empty_col, FALSE) ],
           nseqs, length, min_nseqs, mdata_char, i + 1)

\* The test of line 1630 with one more empty column let through.
indel_keeps_col_up_to_tuple_size(nempty, tuple_size, empty, k) ==
    nempty <= tuple_size /\ ~(empty /\ k = 0)

\* nempty <= tuple_size-1 && !(empty_col[i] && k == 0)
indel_keeps_col(nempty, tuple_size, empty, k) ==
    nempty <= tuple_size - 1 /\ ~(empty /\ k = 0)

\* Lines 1631-1632: column i (1-based) is copied to the end of the columns
\* copied so far, as missing data if it is empty.
indel_copy_col(out, rows, nseqs, empty, mdata_char, i) ==
    [ j \in 1..nseqs |-> Append(out[j], IF empty THEN mdata_char ELSE rows[j][i]) ]

\* Lines 1626-1635: the loop over the columns from column i (1-based) on;
\* s = [out, nempty], out the columns copied so far (Len(out[1]) is k);
\* lines 1636-1638: the length, the rows cut to it, and whether the
\* terminator is written before the start of the rows.
RECURSIVE indel_collapse(_, _, _, _, _, _, _)
indel_collapse(s, m, nseqs, length, tuple_size, mdata_char, i) ==
    IF i > length
    THEN [ length |-> Len(s.out[1]) - IF s.nempty > 0 THEN Min(2, s.nempty) ELSE 0,
           seqs |-> [ j \in 1..nseqs |->
                        SubSeq(s.out[j], 1,
                               Len(s.out[1]) - IF s.nempty > 0 THEN Min(2, s.nempty) ELSE 0) ],
           ub |-> Len(s.out[1]) - (IF s.nempty > 0 THEN Min(2, s.nempty) ELSE 0) < 0 ]
    ELSE indel_collapse(
           [ out |-> IF indel_keeps_col(IF m.empty_col[i] THEN s.nempty + 1 ELSE 0,
                                        tuple_size, m.empty_col[i], Len(s.out[1]))
                     THEN indel_copy_col(s.out, m.rows, nseqs, m.empty_col[i], mdata_char, i)
                     ELSE s.out,
             nempty |-> IF m.empty_col[i] THEN s.nempty + 1 ELSE 0 ],
           m, nseqs, length, tuple_size, mdata_char, i + 1)

\* The first two steps of msa_indel_clean on the explicit rows of m: the
\* rows and the columns marked empty.
indel_masked(m, indel_border, min_nbases, min_nseqs, mdata_char) ==
    indel_mask_cols(
      [ rows |-> indel_step1(Deref(m.seqs), m.nseqs, m.length, indel_border, min_nbases,
                             mdata_char, 1),
        empty_col |-> << >> ],
      m.nseqs, m.length, min_nseqs, mdata_char, 1)

\* msa_indel_clean(msa, indel_border, min_nbases, min_nseqs, tuple_size,
\* mdata_char) on an alignment with explicit rows: a compressed view stays
\* as it is.
indel_clean_explicit(m, indel_border, min_nbases, min_nseqs, tuple_size, mdata_char) ==
    indel_collapse(
      [ out |-> [ j \in 1..m.nseqs |-> << >> ], nempty |-> 0 ],
      indel_masked(m, indel_border, min_nbases, min_nseqs, mdata_char),
      m.nseqs, m.length, tuple_size, mdata_char, 1)

\* msa_indel_clean: explicit rows are made if there are none.  The result
\* is the rows, the length and whether the terminator was written before
\* the start of a row.
msa_indel_clean(m, indel_border, min_nbases, min_nseqs, tuple_size, mdata_char) ==
    indel_clean_explicit(IF IsNull(m.seqs) THEN ss_to_msa(m) ELSE m,
                         indel_border, min_nbases, min_nseqs, tuple_size, mdata_char)

----------------------------------------------------------------------------
(* Labelling of columns with categories *)

BACKGD_CAT_NAME == "background"

\* cm_get_category(cm, type): the category of a feature type, 0 for a type
\* the category map does not know.
cm_get_category(cm, type) ==
    IF type \in DOMAIN cm.categories THEN cm.categories[type] ELSE 0

\* ss_update_categories(msa): the category counts of the compressed view are
\* recomputed; the matrix it encodes stays.
ss_update_categories(m) == m

\* oldprec == -1 || (newprec != -1 && newprec < oldprec)
Overrides(cm, old, new) ==
    \/ cm.labelling_precedence[old] = -1
    \/ /\ cm.labelling_precedence[new] # -1
       /\ cm.labelling_precedence[new] < cm.labelling_precedence[old]

\* The category a feature of category cat gives column j.
FeatureCategory(cm, feat, cat, j) ==
    IF cm.ranges[cat].start_cat_no = cm.ranges[cat].end_cat_no THEN cat
    ELSE LET range_size == cm.ranges[cat].end_cat_no - cm.ranges[cat].start_cat_no + 1
             frm == IF feat.frame < 0 \/ feat.frame > 2 THEN 0 ELSE feat.frame
             offset == IF feat.strand = "-" THEN feat.end - j ELSE j - feat.start
         IN  cm.ranges[cat].start_cat_no + ((offset + frm) % range_size)

\* A feature that is not labelled: of an unknown type, or out of range.
label_skips(length, cm, feat) ==
    \/ /\ cm_get_category(cm, feat.feature) = 0
       /\ feat.feature # BACKGD_CAT_NAME
    \/ feat.start = -1 \/ feat.end = -1 \/ feat.end >= length

\* The labels after the columns feat.start..feat.end were visited.
label_feature(cats, cm, feat) ==
    [k \in 1..Len(cats) |->
       IF k >= feat.start /\ k <= feat.end
            /\ Overrides(cm, cats[k],
                 FeatureCategory(cm, feat, cm_get_category(cm, feat.feature), k))
       THEN FeatureCategory(cm, feat, cm_get_category(cm, feat.feature), k)
       ELSE cats[k]]

\* The loop over the features from feature i (1-based) on.
RECURSIVE label_features(_, _, _, _, _)
label_features(cats, length, gff, cm, i) ==
    IF i > Len(gff) THEN cats
    ELSE label_features(
           IF label_skips(length, cm, gff[i]) THEN cats
           ELSE label_feature(cats, cm, gff[i]),
           length, gff, cm, i + 1)

\* msa_label_categories(msa, gff, cm): an array allocated here has length
\* entries, one that was there is used as it is; the first length entries
\* are set to 0.
msa_label_categories(m, gff, cm) ==
    LET size == IF IsNull(m.categories) THEN m.length
                ELSE Len(Deref(m.categories))
        zeroed == [k \in 1..size |->
                     IF k <= m.length THEN 0 ELSE Deref(m.categories)[k]]
        labelled == [m EXCEPT !.categories =
                                 Ptr(label_features(zeroed, m.length, gff, cm, 1)),
                              !.ncats = cm.ncats]
    IN  IF ~IsNull(m.ss) THEN ss_update_categories(labelled) ELSE labelled

\* A column outside the categories array is read and written.
msa_label_categories_ub(m, gff, cm) ==
    \/ ~IsNull(m.categories) /\ Len(Deref(m.categories)) < m.length
    \/ \E i \in 1..Len(gff) :
         /\ ~label_skips(m.length, cm, gff[i])
         /\ \E j \in gff[i].start..gff[i].end :
              j < 1 \/ j > (IF IsNull(m.categories) THEN m.length
                            ELSE Len(Deref(m.categories)))

----------------------------------------------------------------------------
(* The alignments the operations start from and their inputs *)

\* Characters the rows passed to msa_new are made of.
InitChars == { "A", GAP_CHAR }

\* Characters the rows of a source alignment of msa_concatenate are made of.
SourceChars == { "G", GAP_CHAR }

\* Row names of the alignments built, in order; names a target order may use.
SeqNames == << "a", "b" >>
TargetNames == { "a", "b", "c" }

\* cm->ncats of the category map in use; category ids are 0..NCats.
NCats == 2
CatIds == 0..NCats

\* What a read past the end of the categories array may return: a valid
\* category id or a value that is none.
GarbageCats == { 0, NCats + 1 }

\* What a character of a row that was allocated and never written may be:
\* an alignment character or a byte that is none.
FreshChars == { "A", "?" }

\* rows as passed to msa_new, and the representations built from them:
\* explicit rows only, compressed view only (ss_to_msa never called), or
\* both; tuple size 1 or 2, column order stored.
Representations == { "seqs", "ss1", "ss2", "both1", "both2" }

Explicit(rows, len) ==
    msa_new(Ptr(rows), SubSeq(SeqNames, 1, Len(rows)), Len(rows), len)

WithCategories(m, cats) == [m EXCEPT !.categories = cats, !.ncats = NCats]

Represent(rows, len, rep, cats) ==
    LET e == Explicit(rows, len)
        b == ss_from_msas(e, IF rep \in { "ss2", "both2" } THEN 2 ELSE 1, TRUE)
        m == IF rep = "seqs" THEN e
             ELSE IF rep \in { "both1", "both2" } THEN b
             ELSE [b EXCEPT !.seqs = NULL, !.row_alloc = << >>]
    IN  IF IsNull(cats) THEN m ELSE WithCategories(m, cats)

\* The categories array of an alignment of length len > 0, when it has
\* one: allocated with len entries, each a valid category id.
CategoryChoices(len) ==
    IF len = 0 THEN { NULL }
    ELSE { NULL, Ptr([i \in 1..len |-> (i - 1) % (NCats + 1)]) }

\* The alignments with rows of length len.
Alignments(len) ==
    { Represent(rows, len, rep, cats) :
        rows \in UNION { [1..n -> [1..len -> InitChars]] : n \in 1..Len(SeqNames) },
        rep \in Representations, cats \in CategoryChoices(len) }

\* The explicit alignments with n rows msa_concatenate is given as source.
Sources(n) ==
    UNION { { msa_new(Ptr(rows), [j \in 1..n |-> "s"], n, len) :
                rows \in [1..n -> [1..len -> SourceChars]] } : len \in 0..MaxSrcLen }

\* Target orders handed to msa_reorder_rows.
TargetOrders ==
    UNION { [1..n -> TargetNames] : n \in 1..Cardinality(TargetNames) }

----------------------------------------------------------------------------
(* The operations as steps of an alignment's life *)

Init ==
    /\ msa \in UNION { Alignments(len) : len \in 0..MaxLen }
    /\ pre = msa
    /\ orig = msa
    /\ hist = << >>
    /\ status = "ok"
    /\ ret = 0
    /\ errstr = << >>
    /\ ub = FALSE
    /\ map = NULL
    /\ gff_set = NULL

\* The bookkeeping every step shares.
Done(name, a, st, m, u) ==
    /\ msa' = m
    /\ pre' = msa
    /\ orig' = orig
    /\ hist' = Append(hist, [name |-> name, arg |-> a, ret |-> 0])
    /\ status' = st
    /\ ret' = 0
    /\ errstr' = << >>
    /\ ub' = (ub \/ u)
    /\ map' = map
    /\ gff_set' = gff_set

\* An operation is applied to the alignment just built ...
Fresh == hist = << >>

\* ... or once more to its own result.
Again(name) == nops = 1 /\ op = name /\ status = "ok"

StripGaps ==
    /\ Fresh \/ Again("msa_strip_gaps")
    /\ \E gap_strip_mode \in { STRIP_ALL_GAPS, STRIP_ANY_GAPS } \cup 1..msa.nseqs :
        \E g \in IF msa_strip_gaps_ub(msa, gap_strip_mode) THEN GarbageCats ELSE { 0 } :
          Done("msa_strip_gaps", gap_strip_mode, "ok",
               msa_strip_gaps(msa, gap_strip_mode, g),
               msa_strip_gaps_ub(msa, gap_strip_mode))

ReverseCompl ==
    /\ Fresh \/ Again("msa_reverse_compl")
    /\ IF msa_reverse_compl_aborts(msa)
       THEN Done("msa_reverse_compl", << >>, "abort", msa, FALSE)
       ELSE Done("msa_reverse_compl", << >>, "ok", msa_reverse_compl(msa), FALSE)

Concatenate ==
    /\ Fresh
    /\ \E n \in { msa.nseqs, 1 } : \E source_msa \in Sources(n) :
        IF msa_concatenate_aborts(msa, source_msa)
        THEN Done("msa_concatenate", source_msa, "abort", msa, FALSE)
        ELSE \E fresh \in IF msa_concatenate_allocates(msa)
                          THEN [1..msa.nseqs -> [1..msa.length -> FreshChars]]
                          ELSE { << >> } :
               Done("msa_concatenate", source_msa, "ok",
                    msa_concatenate(msa, source_msa, fresh),
                    msa_concatenate_ub(msa, source_msa))

Permute ==
    /\ Fresh
    /\ \E rand_perm \in Perms(msa.length) :
        Done("msa_permute", rand_perm, "ok", msa_permute(msa, rand_perm), FALSE)

ReorderRows ==
    /\ Fresh
    /\ \E target_order \in TargetOrders :
        IF msa_reorder_rows_aborts(msa, target_order)
        THEN Done("msa_reorder_rows", target_order, "abort", msa, FALSE)
        ELSE Done("msa_reorder_rows", target_order, "ok",
                  msa_reorder_rows(msa, target_order), FALSE)

\* The alignments a coordinate map is built for: explicit rows or the
\* compressed view alone, no categories.
InitMap ==
    /\ msa \in { Represent(rows, Len(rows[1]), rep, NULL) :
                   rows \in UNION { [1..n -> [1..len -> InitChars]] :
                                      n \in 1..Len(SeqNames), len \in 0..MaxLen },
                   rep \in { "seqs", "ss1" } }
    /\ pre = msa
    /\ orig = msa
    /\ hist = << >>
    /\ status = "ok"
    /\ ret = 0
    /\ errstr = << >>
    /\ ub = FALSE
    /\ map = NULL
    /\ gff_set = NULL

\* A coordinate query: the alignment is left alone, the result is kept.
Asked(name, a, r) ==
    /\ hist' = Append(hist, [name |-> name, arg |-> a, ret |-> r])
    /\ ret' = r
    /\ UNCHANGED << msa, pre, orig, status, errstr, ub, map, gff_set >>

BuildCoordMap ==
    /\ IsNull(map)
    /\ \E refseq \in 1..msa.nseqs :
        /\ map' = Ptr(msa_build_coord_map(msa, refseq))
        /\ hist' = Append(hist, [name |-> "msa_build_coord_map", arg |-> refseq, ret |-> 0])
        /\ UNCHANGED << msa, pre, orig, status, ret, errstr, ub, gff_set >>

\* Positions a caller asks about: in range, 0 and past the end.
Positions == 0..(MaxLen + 1)

MapSeqToMsa ==
    /\ ~IsNull(map) /\ nops = 1
    /\ \E seq_pos \in Positions :
        Asked("msa_map_seq_to_msa", seq_pos, msa_map_seq_to_msa(Deref(map), seq_pos))

MapMsaToSeq ==
    /\ ~IsNull(map) /\ nops = 1
    /\ \E msa_pos \in Positions :
        Asked("msa_map_msa_to_seq", msa_pos, msa_map_msa_to_seq(Deref(map), msa_pos))

\* The alignment coordinate msa_map_seq_to_msa returned is mapped back.
MapBack ==
    /\ ~IsNull(map) /\ nops = 2 /\ op = "msa_map_seq_to_msa"
    /\ Asked("msa_map_msa_to_seq", ret, msa_map_msa_to_seq(Deref(map), ret))

NextMap ==
    \/ BuildCoordMap
    \/ MapSeqToMsa
    \/ MapMsaToSeq
    \/ MapBack

SpecMap == InitMap /\ [][NextMap]_vars

\* The pieces rows of coding alignments are built from: a start codon, a
\* codon that is neither start nor stop, a stop codon, and a gap.
Units == { << "A", "T", "G" >>, << "A", "A", "A" >>, << "T", "A", "A" >>,
           << GAP_CHAR >> }

MaxUnits == 3

UnitRows == { Flatten(u) : u \in UNION { [1..k -> Units] : k \in 0..MaxUnits } }

\* Explicit alignments of one or two rows of units.
InitCoding ==
    /\ msa \in { Explicit(rows, Len(rows[1])) :
                   rows \in { r \in UNION { [1..n -> UnitRows] : n \in 1..Len(SeqNames) } :
                                \A j \in DOMAIN r : Len(r[j]) = Len(r[1]) } }
    /\ pre = msa
    /\ orig = msa
    /\ hist = << >>
    /\ status = "ok"
    /\ ret = 0
    /\ errstr = << >>
    /\ ub = FALSE
    /\ map = NULL
    /\ gff_set = NULL

MaxMinCodons == 3

\* What unassigned storage may hold.
Garbage == { [ int |-> n, char |-> c ] :
               n \in { -2, 0, 3 * MaxUnits + 1 }, c \in { GAP_CHAR, "T" } }

\* beg stays unassigned when the reference row has no base.
UsesGarbage(m, refseq) ==
    \A i \in 1..m.length : Deref(m.seqs)[refseq + 1][i] = GAP_CHAR

CodingClean ==
    /\ Fresh
    /\ ~IsNull(msa.seqs)
    /\ \E refseq \in 0..(msa.nseqs - 1), min_ncodons \in 0..MaxMinCodons :
       \E garbage \in IF UsesGarbage(msa, refseq) THEN Garbage
                      ELSE { [ int |-> 0, char |-> NUL ] } :
        LET r == msa_coding_clean(msa, refseq, min_ncodons, garbage)
        IN  /\ msa' = r.msa
            /\ pre' = msa
            /\ hist' = Append(hist, [ name |-> "msa_coding_clean",
                                      arg |-> [ refseq |-> refseq,
                                                min_ncodons |-> min_ncodons ],
                                      ret |-> r.retval ])
            /\ ret' = r.retval
            /\ errstr' = errstr \o r.errstr
            /\ ub' = (ub \/ r.ub)
            /\ UNCHANGED << orig, status, map, gff_set >>

NextCoding == CodingClean

SpecCoding == InitCoding /\ [][NextCoding]_vars

\* Longer coding alignments, for what depends on the last fifth of the
\* reference span: every row is a start codon and PrefixCodons - 1 codons
\* AAA followed by up to MaxTailUnits units.
PrefixCodons == 8

MaxTailUnits == 4

TailUnits == { << "A", "A", "A" >>, << "T", "A", "A" >>, << GAP_CHAR >> }

CodingPrefix ==
    Flatten([ k \in 1..PrefixCodons |->
                IF k = 1 THEN << "A", "T", "G" >> ELSE << "A", "A", "A" >> ])

TailRows ==
    { CodingPrefix \o Flatten(u) :
        u \in UNION { [1..k -> TailUnits] : k \in 0..MaxTailUnits } }

InitCodingLong ==
    /\ msa \in { Explicit(rows, Len(rows[1])) :
                   rows \in { r \in UNION { [1..n -> TailRows] : n \in 1..Len(SeqNames) } :
                                \A j \in DOMAIN r : Len(r[j]) = Len(r[1]) } }
    /\ pre = msa
    /\ orig = msa
    /\ hist = << >>
    /\ status = "ok"
    /\ ret = 0
    /\ errstr = << >>
    /\ ub = FALSE
    /\ map = NULL
    /\ gff_set = NULL

SpecCodingLong == InitCodingLong /\ [][NextCoding]_vars

\* The longest alignment that is labelled.
MaxLabelLen == 2

\* One row, or one row and its compressed view, with or without labels.
InitLabel ==
    /\ msa \in UNION { { Represent(<< [i \in 1..len |-> "A"] >>, len, rc[1], rc[2]) :
                           rc \in { << "seqs", NULL >>,
                                    << "seqs", Ptr([i \in 1..len |-> NCats]) >>,
                                    << "both1", NULL >> } } :
                         len \in 1..MaxLabelLen }
    /\ pre = msa
    /\ orig = msa
    /\ hist = << >>
    /\ status = "ok"
    /\ ret = 0
    /\ errstr = << >>
    /\ ub = FALSE
    /\ map = NULL
    /\ gff_set = NULL

\* Category maps: types "t1" and "t2" with categories 1 and 2.  Each
\* category on its own with one order of precedence or the other, with no
\* precedence for category 2, with a precedence for category 0; and
\* categories 1..2 as one cyclic range.
Single == [ c \in 0..2 |-> [ start_cat_no |-> c, end_cat_no |-> c ] ]

Cyclic == [ c \in 0..2 |-> IF c = 0 THEN [ start_cat_no |-> 0, end_cat_no |-> 0 ]
                           ELSE [ start_cat_no |-> 1, end_cat_no |-> 2 ] ]

Precedences == { << -1, 0, 1 >>, << -1, 1, 0 >>, << -1, 0, -1 >>, << 0, 1, 2 >> }

CategoryMaps ==
    { [ ncats |-> 2, categories |-> [ t \in { "t1", "t2" } |-> IF t = "t1" THEN 1 ELSE 2 ],
        ranges |-> Single, labelling_precedence |-> [ c \in 0..2 |-> p[c + 1] ] ] :
        p \in Precedences }
    \cup
    { [ ncats |-> 2, categories |-> [ t \in { "t1" } |-> 1 ],
        ranges |-> Cyclic, labelling_precedence |-> [ c \in 0..2 |-> << -1, 0, 1 >>[c + 1] ] ] }

\* Features: the coordinates go from -1 (none) to one past the longest
\* alignment.
Features ==
    { [ feature |-> t, start |-> a, end |-> b, strand |-> sf[1], frame |-> sf[2] ] :
        t \in { "t1", "t2", "other" },
        a \in -1..(MaxLabelLen + 1), b \in -1..(MaxLabelLen + 1),
        sf \in { << "+", 0 >>, << "-", 1 >> } }

MaxFeatures == 2

Gffs == UNION { [1..n -> Features] : n \in 0..MaxFeatures }

LabelCategories ==
    /\ Fresh
    /\ \E gff \in Gffs, cm \in CategoryMaps :
        Done("msa_label_categories", [ gff |-> gff, cm |-> cm ], "ok",
             msa_label_categories(msa, gff, cm),
             msa_label_categories_ub(msa, gff, cm))

NextLabel == LabelCategories

SpecLabel == InitLabel /\ [][NextLabel]_vars

\* The longest alignment features are mapped on, and the most features of
\* a set.
MaxGffLen == 2

MaxGffFeatures == 1

\* Features of a set to be mapped: named after row "a", after the whole
\* alignment or after no row; of a type without anchor, of a left-anchored
\* type on either strand, of a right-anchored type; with coordinates from
\* 0 to the longest alignment, start <= end.
GffFeatures ==
    { [ seqname |-> n, feature |-> ts[1], strand |-> ts[2], start |-> a, end |-> b ] :
        n \in { "a", "MSA", "x" },
        ts \in { << "CDS", "+" >>, << "start_codon", "+" >>,
                 << "start_codon", "-" >>, << "3'splice", "+" >> },
        a \in 0..MaxGffLen, b \in 0..MaxGffLen } \cap
    { f \in [ seqname : STRING, feature : STRING, strand : STRING,
              start : Int, end : Int ] : f.start <= f.end }

\* Feature sets, ungrouped or with all features in one group.
GffSets ==
    UNION { { [ features |-> fs, groups |-> g ] :
                fs \in [1..n -> GffFeatures],
                g \in { NULL, Ptr(<< [ features |-> 1..n ] >>) } } :
            n \in 0..MaxGffFeatures }

\* Two explicit rows "a" and "b" and a feature set.
InitGff ==
    /\ msa \in UNION { { Represent(rows, len, "seqs", NULL) :
                           rows \in [1..2 -> [1..len -> InitChars]] } :
                       len \in 1..MaxGffLen }
    /\ pre = msa
    /\ orig = msa
    /\ hist = << >>
    /\ status = "ok"
    /\ ret = 0
    /\ errstr = << >>
    /\ ub = FALSE
    /\ map = NULL
    /\ gff_set \in GffSets

\* msa_map_gff_coords(msa, gff, from_seq, to_seq, offset, cm)
MapGffCoords ==
    /\ Fresh
    /\ \E from_seq \in -1..msa.nseqs, to_seq \in -1..msa.nseqs, offset \in 0..1 :
        /\ hist' = Append(hist, [ name |-> "msa_map_gff_coords",
                                  arg |-> [ gff |-> gff_set, from_seq |-> from_seq,
                                            to_seq |-> to_seq, offset |-> offset ],
                                  ret |-> 0 ])
        /\ IF msa_map_gff_coords_dies(msa, gff_set, from_seq, to_seq, offset)
           THEN status' = "abort" /\ gff_set' = gff_set
           ELSE /\ status' = "ok"
                /\ gff_set' = msa_map_gff_coords(msa, gff_set, from_seq, to_seq, offset)
        /\ pre' = msa
        /\ UNCHANGED << msa, orig, ret, errstr, ub, map >>

NextGff == MapGffCoords

SpecGff == InitGff /\ [][NextGff]_vars

\* Feature sets whose features name their rows: up to MaxNamedFeatures
\* features of one unanchored type, each named after row "a", row "b" or
\* the whole alignment, each covering one position.
MaxNamedFeatures == 3

NamedFeatures ==
    { [ seqname |-> n, feature |-> "CDS", strand |-> "+", start |-> a, end |-> a ] :
        n \in { "a", "b", "MSA" }, a \in 1..MaxGffLen }

InitGffNames ==
    /\ msa \in { Represent(rows, MaxGffLen, "seqs", NULL) :
                   rows \in [1..2 -> [1..MaxGffLen -> InitChars]] }
    /\ pre = msa
    /\ orig = msa
    /\ hist = << >>
    /\ status = "ok"
    /\ ret = 0
    /\ errstr = << >>
    /\ ub = FALSE
    /\ map = NULL
    /\ gff_set \in UNION { { [ features |-> fs, groups |-> NULL ] :
                               fs \in [1..n -> NamedFeatures] } :
                           n \in 1..MaxNamedFeatures }

SpecGffNames == InitGffNames /\ [][NextGff]_vars

\* The longest alignment a sub-alignment is taken of.
MaxSubLen == 2

\* Alignments with explicit rows, with and without their compressed view
\* and their categories.
InitSub ==
    /\ msa \in UNION { { Represent(rows, len, rep, cats) :
                           rows \in UNION { [1..n -> [1..len -> InitChars]] :
                                              n \in 1..Len(SeqNames) },
                           rep \in { "seqs", "both1" },
                           cats \in CategoryChoices(len) } :
                       len \in 0..MaxSubLen }
    /\ pre = msa
    /\ orig = msa
    /\ hist = << >>
    /\ status = "ok"
    /\ ret = 0
    /\ errstr = << >>
    /\ ub = FALSE
    /\ map = NULL
    /\ gff_set = NULL

\* The row lists handed to msa_sub_alignment: none, or up to two indices,
\* from one below the first row to one past the last.
SeqLists ==
    { NULL } \cup { Ptr(l) : l \in UNION { [1..n -> -1..Len(SeqNames)] : n \in 0..2 } }

\* msa_sub_alignment(msa, seqlist, include, start_col, end_col): the
\* alignment returned becomes the one in hand, its source is kept in pre.
SubAlignment ==
    /\ Fresh
    /\ \E seqlist \in SeqLists, include \in BOOLEAN,
          start_col \in -1..MaxSubLen, end_col \in -1..(MaxSubLen + 2) :
        LET a == [ seqlist |-> seqlist, include |-> include,
                   start_col |-> start_col, end_col |-> end_col ]
        IN  IF msa_sub_alignment_aborts(msa, seqlist, include, start_col, end_col)
            THEN Done("msa_sub_alignment", a, "abort", msa, FALSE)
            ELSE \E g \in IF msa_sub_alignment_ub(msa, seqlist, include, start_col, end_col)
                          THEN { [ char |-> c, int |-> n ] : c \in FreshChars, n \in GarbageCats }
                          ELSE { [ char |-> "?", int |-> 0 ] } :
                   Done("msa_sub_alignment", a, "ok",
                        msa_sub_alignment(msa, seqlist, include, start_col, end_col, g),
                        msa_sub_alignment_ub(msa, seqlist, include, start_col, end_col))

NextSub == SubAlignment

SpecSub == InitSub /\ [][NextSub]_vars

\* The longest alphabet handed to msa_new and msa_reset_alphabet, and the
\* number of alphabet operations applied in a row.
MaxAlphLen == 2

MaxAlphOps == 3

\* Alphabets a caller passes: the characters differ from each other.
Alphabets ==
    UNION { { a \in [1..n -> { "A", "N", "a" }] :
                \A i, j \in 1..n : a[i] = a[j] => i = j } : n \in 1..MaxAlphLen }

\* msa_new with one row of one character, in upper or lower case, and the
\* default alphabet or one passed in; with or without the compressed view.
InitAlph ==
    /\ msa \in { msa_new_alphabet(alphabet) @@ Represent(<< << c >> >>, 1, rep, NULL) :
                   alphabet \in { NULL } \cup { Ptr(a) : a \in Alphabets },
                   c \in { "A", "a" }, rep \in { "seqs", "both1" } }
    /\ pre = msa
    /\ orig = msa
    /\ hist = << >>
    /\ status = "ok"
    /\ ret = 0
    /\ errstr = << >>
    /\ ub = FALSE
    /\ map = NULL
    /\ gff_set = NULL

ToUpper ==
    /\ nops < MaxAlphOps
    /\ Done("msa_toupper", << >>, "ok", msa_toupper(msa), FALSE)

RemoveNFromAlph ==
    /\ nops < MaxAlphOps
    /\ Done("msa_remove_N_from_alph", << >>, "ok", msa_remove_N_from_alph(msa), FALSE)

ResetAlphabet ==
    /\ nops < MaxAlphOps
    /\ \E newalph \in Alphabets :
        Done("msa_reset_alphabet", newalph, "ok", msa_reset_alphabet(msa, newalph), FALSE)

NextAlph ==
    \/ ToUpper
    \/ RemoveNFromAlph
    \/ ResetAlphabet

SpecAlph == InitAlph /\ [][NextAlph]_vars

\* The longest declared row, the longest line and the most sequence lines
\* of a file.
MaxFileLen == 2

MaxLineLen == 2

MaxFileLines == 2

\* The characters of sequence lines: a base in upper and in lower case, a
\* letter that is no base, and two characters that are no letters.
FileChars == { "A", "a", "X", "#", "." }

\* Files of one row "a": the declared size (read by PHYLIP and MPM only)
\* and the sequence lines, at least one.
Files ==
    { [ format |-> fmt, nseqs |-> 1, len |-> len,
        rows |-> << [ name |-> "a", lines |-> ls ] >> ] :
        fmt \in { "FASTA", "PHYLIP", "MPM" }, len \in 1..MaxFileLen,
        ls \in UNION { [1..n -> UNION { [1..k -> FileChars] : k \in 0..MaxLineLen }] :
                         n \in 1..MaxFileLines } }

\* No alignment yet.
InitRead ==
    /\ msa = NULL
    /\ pre = NULL
    /\ orig = NULL
    /\ hist = << >>
    /\ status = "ok"
    /\ ret = 0
    /\ errstr = << >>
    /\ ub = FALSE
    /\ map = NULL
    /\ gff_set = NULL

\* msa_new_from_file(F, format, alphabet) with the default alphabet or one
\* that holds a lower-case letter.
NewFromFile ==
    /\ Fresh
    /\ \E F \in Files, alphabet \in { NULL, Ptr(<< "A", "a" >>) } :
        LET read == msa_new_from_file(F, alphabet)
        IN  Done("msa_new_from_file", [ F |-> F, alphabet |-> alphabet ], read.status,
                 IF read.status = "ok" THEN read.msa ELSE NULL, read.ub)

NextRead == NewFromFile

SpecRead == InitRead /\ [][NextRead]_vars

\* Masking of long gap runs: alignments of up to MaxMaskLen columns, the
\* threshold k up to MaxMaskK, refseq 0 (no row exempt) or a row's number.
MaxMaskLen == 3

MaxMaskK == 2

\* An alignment whose compressed view, if it has one, does not store the
\* column order (tuple_idx == NULL).
Unordered(m) ==
    IF IsNull(m.ss) THEN m ELSE [m EXCEPT !.ss = Ptr([Deref(m.ss) EXCEPT !.ordered = FALSE])]

InitMask ==
    /\ msa \in UNION { UNION { { Represent(rows, len, rep, NULL),
                                 Unordered(Represent(rows, len, rep, NULL)) } :
                           rows \in UNION { [1..n -> [1..len -> InitChars]] : n \in 1..Len(SeqNames) },
                           rep \in Representations } : len \in 1..MaxMaskLen }
    /\ pre = msa
    /\ orig = msa
    /\ hist = << >>
    /\ status = "ok"
    /\ ret = 0
    /\ errstr = << >>
    /\ ub = FALSE
    /\ map = NULL
    /\ gff_set = NULL

MaskMacroIndels ==
    /\ Fresh
    /\ \E k \in 0..MaxMaskK : \E refseq \in 0..msa.nseqs :
         IF msa_mask_macro_indels_aborts(msa)
         THEN Done("msa_mask_macro_indels", [k |-> k, refseq |-> refseq], "abort", msa, FALSE)
         ELSE Done("msa_mask_macro_indels", [k |-> k, refseq |-> refseq], "ok",
                   msa_mask_macro_indels(msa, k, refseq), FALSE)

NextMask == MaskMacroIndels

SpecMask == InitMask /\ [][NextMask]_vars

\* Cleaning of indel artifacts: alignments of up to MaxIndelLen columns,
\* explicit or as a compressed view only; indel_border up to MaxBorder,
\* min_nbases up to MaxMinNbases, min_nseqs up to the number of rows,
\* tuple_size from 1 to MaxTupleSize.
MaxIndelLen == 4

MaxBorder == 1

MaxMinNbases == 3

MaxTupleSize == 2

InitIndel ==
    /\ msa \in UNION { { Represent(rows, len, rep, NULL) :
                           rows \in UNION { [1..n -> [1..len -> InitChars]] : n \in 1..Len(SeqNames) },
                           rep \in { "seqs", "ss1" } } : len \in 1..MaxIndelLen }
    /\ pre = msa
    /\ orig = msa
    /\ hist = << >>
    /\ status = "ok"
    /\ ret = 0
    /\ errstr = << >>
    /\ ub = FALSE
    /\ map = NULL
    /\ gff_set = NULL

IndelClean ==
    /\ Fresh
    /\ \E indel_border \in 0..MaxBorder, min_nbases \in 0..MaxMinNbases,
          min_nseqs \in 0..msa.nseqs, tuple_size \in 1..MaxTupleSize :
        \E r \in { msa_indel_clean(msa, indel_border, min_nbases, min_nseqs, tuple_size,
                                   msa.missing[1]) } :
          Done("msa_indel_clean",
               [ indel_border |-> indel_border, min_nbases |-> min_nbases,
                 min_nseqs |-> min_nseqs, tuple_size |-> tuple_size,
                 mdata_char |-> msa.missing[1] ],
               "ok",
               [ (IF IsNull(msa.seqs) THEN ss_to_msa(msa) ELSE msa)
                   EXCEPT !.seqs = Ptr(r.seqs), !.length = r.length ],
               r.ub)

NextIndel == IndelClean

SpecIndel == InitIndel /\ [][NextIndel]_vars

----------------------------------------------------------------------------
(* Sequences of calls that change the length or the rows of an explicit
   alignment *)

MaxStorageLen == 2
MaxStorageOps == 3

\* One-row alignments with explicit rows only, as msa_new leaves them.
InitStorage ==
    /\ msa \in UNION { { Explicit(rows, len) :
                           rows \in [1..1 -> [1..len -> InitChars]] } :
                       len \in 1..MaxStorageLen }
    /\ pre = msa
    /\ orig = msa
    /\ hist = << >>
    /\ status = "ok"
    /\ ret = 0
    /\ errstr = << >>
    /\ ub = FALSE
    /\ map = NULL
    /\ gff_set = NULL

\* A further call is made on the alignment the calls so far have left.
NextCall == nops < MaxStorageOps /\ status = "ok"

\* Target orders of up to two names.
StorageOrders == { o \in TargetOrders : Len(o) <= 2 }

\* msa_strip_gaps(msa, gap_strip_mode), after any of the other calls.
ThenStripGaps ==
    /\ NextCall
    /\ \E gap_strip_mode \in { STRIP_ALL_GAPS, STRIP_ANY_GAPS } \cup 1..msa.nseqs :
        \E g \in IF msa_strip_gaps_ub(msa, gap_strip_mode) THEN GarbageCats ELSE { 0 } :
          Done("msa_strip_gaps", gap_strip_mode, "ok",
               msa_strip_gaps(msa, gap_strip_mode, g),
               msa_strip_gaps_ub(msa, gap_strip_mode))

\* msa_reorder_rows(msa, target_order), after any of the other calls.
ThenReorderRows ==
    /\ NextCall
    /\ \E target_order \in StorageOrders :
        IF msa_reorder_rows_aborts(msa, target_order)
        THEN Done("msa_reorder_rows", target_order, "abort", msa, FALSE)
        ELSE Done("msa_reorder_rows", target_order, "ok",
                  msa_reorder_rows(msa, target_order), FALSE)

\* msa_concatenate(aggregate_msa, source_msa), after any of the other calls.
ThenConcatenate ==
    /\ NextCall
    /\ \E n \in { msa.nseqs, 1 } : \E source_msa \in Sources(n) :
        IF msa_concatenate_aborts(msa, source_msa)
        THEN Done("msa_concatenate", source_msa, "abort", msa, FALSE)
        ELSE \E fresh \in IF msa_concatenate_allocates(msa)
                          THEN [1..msa.nseqs -> [1..msa.length -> FreshChars]]
                          ELSE { << >> } :
               Done("msa_concatenate", source_msa, "ok",
                    msa_concatenate(msa, source_msa, fresh),
                    msa_concatenate_ub(msa, source_msa))

\* msa_sub_alignment(msa, NULL, FALSE, start_col, end_col) with the columns
\* inside the alignment or empty, after any of the other calls; the
\* alignment returned becomes the one in hand.
ThenSubAlignment ==
    /\ NextCall
    /\ \E start_col \in 0..1, end_col \in 1..MaxStorageLen :
        /\ end_col <= msa.length
        /\ LET a == [ seqlist |-> NULL, include |-> FALSE,
                      start_col |-> start_col, end_col |-> end_col ]
           IN  IF msa_sub_alignment_aborts(msa, NULL, FALSE, start_col, end_col)
               THEN Done("msa_sub_alignment", a, "abort", msa, FALSE)
               ELSE Done("msa_sub_alignment", a, "ok",
                         msa_sub_alignment(msa, NULL, FALSE, start_col, end_col,
                                           [ char |-> "?", int |-> 0 ]),
                         msa_sub_alignment_ub(msa, NULL, FALSE, start_col, end_col))

NextStorage ==
    \/ ThenStripGaps
    \/ ThenReorderRows
    \/ ThenConcatenate
    \/ ThenSubAlignment

SpecStorage == InitStorage /\ [][NextStorage]_vars

\* The transforms that work on one alignment in place.
Next ==
    \/ StripGaps
    \/ ReverseCompl
    \/ Permute
    \/ ReorderRows

Spec == Init /\ [][Next]_vars

\* Concatenation of a second alignment onto the one built.
NextConcat == Concatenate

SpecConcat == Init /\ [][NextConcat]_vars

----------------------------------------------------------------------------
(* Properties of the structural transforms *)

\* The last operation was `name` and ran to its end.
Ran(name) == nops >= 1 /\ op = name /\ status = "ok"

\* Whether some column of the alignment holds a gap.
HasGap(m) ==
    \E j \in 1..m.nseqs : \E i \in 1..m.length : Matrix(m)[j][i] = GAP_CHAR

\* C1: an alignment that held explicit rows and a compressed view holds
\* the same data in both after any transform: the compressed view is
\* either freed or as the rows are, never stale.
C1_CompressedViewNeverStale ==
    (~IsNull(orig.seqs) /\ ~IsNull(orig.ss) /\ ~IsNull(msa.seqs) /\ ~IsNull(msa.ss))
        => Deref(msa.ss).data = Deref(msa.seqs)

\* C3: msa_concatenate(A, B) leaves A with length m+n, its first m columns
\* those A had and its next n columns those of B, whatever representation A
\* held.
C3_ConcatenateAppends ==
    Ran("msa_concatenate") =>
        /\ msa.length = pre.length + arg.length
        /\ \A j \in 1..pre.nseqs :
              /\ SubSeq(Matrix(msa)[j], 1, pre.length) = Matrix(pre)[j]
              /\ SubSeq(Matrix(msa)[j], pre.length + 1, msa.length) = Matrix(arg)[j]

\* C4: msa_reverse_compl applied twice gives back the character matrix it
\* started from, the length unchanged.
C4_ReverseComplTwice ==
    (Ran("msa_reverse_compl") /\ nops = 2) =>
        /\ msa.length = orig.length
        /\ Matrix(msa) = Matrix(orig)

\* msa_reverse_compl has run twice on rows of odd length >= 3 that hold
\* bases to complement.
C4_Witness ==
    /\ Ran("msa_reverse_compl") /\ nops = 2
    /\ orig.length = 3
    /\ ~IsNull(orig.seqs)
    /\ Deref(orig.seqs)[1] = << "A", "A", "-" >>
    /\ Deref(pre.seqs)[1] = << "-", "T", "T" >>

\* msa_reverse_compl has run twice on rows of even length.
C4_WitnessEven ==
    /\ Ran("msa_reverse_compl") /\ nops = 2
    /\ orig.length = 2
    /\ Matrix(orig)[1] = << "A", "-" >>

\* C16: msa_reverse_compl on an alignment with a categories array reverses
\* the array with the rows: afterwards column i has the category that
\* column length + 1 - i had, whether the alignment holds explicit rows,
\* the compressed view or both.
C16_CategoriesReversed ==
    (nops = 1 /\ op = "msa_reverse_compl" /\ ~IsNull(orig.categories)) =>
        /\ status = "ok"
        /\ ~IsNull(msa.categories)
        /\ \A i \in 1..msa.length :
             Deref(msa.categories)[i] = Deref(orig.categories)[msa.length + 1 - i]

\* C17: after msa_permute the alignment holds no compressed view, whether
\* it held one alone or together with explicit rows before, and its explicit
\* rows are the rows before with their columns permuted.
C17_PermuteDiscardsView ==
    Ran("msa_permute") =>
        /\ IsNull(msa.ss)
        /\ ~IsNull(msa.seqs)
        /\ \E p \in Perms(msa.length) :
             \A j \in 1..msa.nseqs : \A i \in 1..msa.length :
                Deref(msa.seqs)[j][i] = Matrix(pre)[j][p[i] + 1]

\* C5: after msa_strip_gaps in STRIP_ANY_GAPS mode no column holds a gap,
\* and a second application changes neither the length, the rows nor the
\* categories array.
C5_StripAnyGapsIdempotent ==
    (Ran("msa_strip_gaps") /\ arg = STRIP_ANY_GAPS) =>
        /\ ~HasGap(msa)
        /\ (nops >= 2 /\ hist[nops - 1].arg = STRIP_ANY_GAPS) =>
              /\ msa.length = pre.length
              /\ Matrix(msa) = Matrix(pre)
              /\ msa.categories = pre.categories

\* A second STRIP_ANY_GAPS run has followed a first one that removed a
\* column from an alignment with categories.
C5_Witness ==
    /\ Ran("msa_strip_gaps") /\ arg = STRIP_ANY_GAPS
    /\ nops = 2 /\ hist[1].arg = STRIP_ANY_GAPS
    /\ ~IsNull(orig.seqs) /\ ~IsNull(orig.categories)
    /\ orig.length = 3 /\ pre.length = 2

\* The k-th column of the alignment as it was before the last operation in
\* which row r holds no gap.
KeptColumn(r, k) ==
    CHOOSE c \in 1..pre.length :
        /\ Matrix(pre)[r][c] # GAP_CHAR
        /\ Cardinality({ i \in 1..c : Matrix(pre)[r][i] # GAP_CHAR }) = k

\* C14: msa_strip_gaps with a row index r >= 1 on an alignment with
\* explicit rows removes exactly the columns in which row r holds a gap:
\* the length becomes the number of non-gap characters of row r, every row
\* holds the other columns in their order, and so does the categories array.
C14_Projection ==
    (Ran("msa_strip_gaps") /\ arg >= 1 /\ ~IsNull(pre.seqs)) =>
        /\ msa.length = Cardinality({ i \in 1..pre.length : Matrix(pre)[arg][i] # GAP_CHAR })
        /\ \A j \in 1..msa.nseqs : \A k \in 1..msa.length :
             Deref(msa.seqs)[j][k] = Deref(pre.seqs)[j][KeptColumn(arg, k)]
        /\ IsNull(msa.categories) = IsNull(pre.categories)
        /\ ~IsNull(pre.categories) =>
             \A k \in 1..msa.length :
                Deref(msa.categories)[k] = Deref(pre.categories)[KeptColumn(arg, k)]

\* Two labelled rows of three columns were projected on the first, which
\* holds a gap in its second column only.
C14_Witness ==
    /\ Ran("msa_strip_gaps") /\ arg = 1 /\ nops = 1
    /\ ~IsNull(pre.seqs) /\ ~IsNull(pre.categories)
    /\ pre.nseqs = 2 /\ pre.length = 3 /\ msa.length = 2
    /\ Matrix(pre)[1][2] = GAP_CHAR
    /\ Deref(msa.categories)[2] = Deref(pre.categories)[3]

\* The target order names every row of m exactly once.
CoversOnce(m, target_order) ==
    \A r \in 1..m.nseqs :
        Cardinality({ i \in 1..Len(target_order) : target_order[i] = m.names[r] }) = 1

\* C9: msa_reorder_rows fails, the alignment unchanged, when the target
\* order omits the name of a row; when it holds every name once, and more,
\* the result has one row per target name in target order, an existing row
\* keeping its characters and a new one made of the missing-data character
\* only, as long as the alignment.
C9_ReorderRows ==
    (nops >= 1 /\ op = "msa_reorder_rows") =>
        /\ (\E r \in 1..pre.nseqs : \A i \in 1..Len(arg) : arg[i] # pre.names[r])
              => (status = "abort" /\ msa = pre)
        /\ CoversOnce(pre, arg) =>
              /\ status = "ok"
              /\ msa.nseqs = Len(arg)
              /\ msa.names = arg
              /\ msa.length = pre.length
              /\ \A i \in 1..Len(arg) :
                    IF \E r \in 1..pre.nseqs : pre.names[r] = arg[i]
                    THEN \A r \in 1..pre.nseqs :
                            pre.names[r] = arg[i] => Matrix(msa)[i] = Matrix(pre)[r]
                    ELSE Matrix(msa)[i] = [k \in 1..pre.length |-> pre.missing[1]]

\* Rows b, a were reordered to a, c, b: row c is new.
C9_Witness ==
    /\ Ran("msa_reorder_rows")
    /\ arg = << "b", "c", "a" >>
    /\ pre.nseqs = 2 /\ pre.length = 2
    /\ ~IsNull(pre.seqs)
    /\ Deref(pre.seqs) = << << "A", "-" >>, << "-", "A" >> >>

\* C10: the categories array, when there is one, has an entry for each of
\* the `length` columns, each a valid category id of the category map.
C10_CategoriesCoverColumns ==
    ~IsNull(msa.categories) =>
        /\ Len(Deref(msa.categories)) >= msa.length
        /\ \A i \in 1..msa.length : Deref(msa.categories)[i] \in CatIds

----------------------------------------------------------------------------
(* Properties of the coordinate maps *)

\* C2: for every ungapped position p of the row the map was built for,
\* 1 <= p <= seq_len, mapping p to the alignment and the result back to
\* the row gives p.
C2_SeqMsaSeqRoundTrip ==
    (nops = 3 /\ op = "msa_map_msa_to_seq" /\ hist[2].name = "msa_map_seq_to_msa"
        /\ hist[2].arg >= 1 /\ hist[2].arg <= Deref(map).seq_len)
      => ret = hist[2].arg

\* Position 2 of a row with a gap before its second base went to column 3
\* and came back.
C2_Witness ==
    /\ nops = 3 /\ op = "msa_map_msa_to_seq" /\ hist[2].name = "msa_map_seq_to_msa"
    /\ hist[2].arg = 2 /\ hist[2].ret = 3 /\ ret = 2
    /\ Deref(map).msa_list = << 1, 3 >>

\* The row the coordinate map was built for.
MapRow == Matrix(msa)[hist[1].arg]

\* The number of non-gap characters of the map's row in columns 1..col.
NonGapUpTo(col) == Cardinality({ i \in 1..col : MapRow[i] # GAP_CHAR })

\* C11: msa_map_msa_to_seq returns -1 for a column outside [1, msa_len] or
\* before the first non-gap character of the row; for a column holding a
\* non-gap character, the count of non-gap characters up to and including
\* it; for a column in an interior or trailing gap run, the position of the
\* last non-gap character before the run.
C11_MsaToSeq ==
    ~IsNull(map) =>
        \A k \in 2..Len(hist) :
            hist[k].name = "msa_map_msa_to_seq" =>
                LET pos == hist[k].arg
                IN  IF pos < 1 \/ pos > msa.length
                    THEN hist[k].ret = -1
                    ELSE IF \A i \in 1..pos : MapRow[i] = GAP_CHAR
                    THEN hist[k].ret = -1
                    ELSE IF MapRow[pos] # GAP_CHAR
                    THEN hist[k].ret = NonGapUpTo(pos)
                    ELSE \E last \in 1..(pos - 1) :
                            /\ MapRow[last] # GAP_CHAR
                            /\ \A i \in (last + 1)..pos : MapRow[i] = GAP_CHAR
                            /\ hist[k].ret = NonGapUpTo(last)

\* Column 2 of a row with an interior gap there was mapped to position 1.
C11_Witness ==
    /\ nops = 2 /\ op = "msa_map_msa_to_seq"
    /\ msa.length = 3
    /\ MapRow[1] # GAP_CHAR /\ MapRow[2] = GAP_CHAR /\ MapRow[3] # GAP_CHAR
    /\ hist[2].arg = 2 /\ ret = 1

\* The columns at which a maximal run of non-gap characters of the map's
\* row begins.
RunStarts ==
    { i \in 1..msa.length :
        MapRow[i] # GAP_CHAR /\ (i = 1 \/ MapRow[i - 1] = GAP_CHAR) }

\* C12: in a map built on row r both lists are strictly increasing with
\* one anchor per maximal run of non-gap characters, seq_len is the number
\* of non-gap characters of row r, and msa_map_seq_to_msa returns the
\* column of the p-th non-gap character for p in [1, seq_len], -1 otherwise.
C12_SeqToMsa ==
    ~IsNull(map) =>
        LET mp == Deref(map)
        IN  /\ Len(mp.msa_list) = Len(mp.seq_list)
            /\ \A k \in 1..(Len(mp.msa_list) - 1) :
                  mp.msa_list[k] < mp.msa_list[k + 1] /\ mp.seq_list[k] < mp.seq_list[k + 1]
            /\ { mp.msa_list[k] : k \in 1..Len(mp.msa_list) } = RunStarts
            /\ Len(mp.msa_list) = Cardinality(RunStarts)
            /\ \A k \in 1..Len(mp.msa_list) :
                  mp.seq_list[k] = NonGapUpTo(mp.msa_list[k])
            /\ mp.seq_len = NonGapUpTo(msa.length)
            /\ \A k \in 2..Len(hist) :
                  hist[k].name = "msa_map_seq_to_msa" =>
                      LET p == hist[k].arg
                      IN  IF p >= 1 /\ p <= NonGapUpTo(msa.length)
                          THEN /\ hist[k].ret \in 1..msa.length
                               /\ MapRow[hist[k].ret] # GAP_CHAR
                               /\ NonGapUpTo(hist[k].ret) = p
                          ELSE hist[k].ret = -1

\* The second base of a row with two runs of bases was found in column 3.
C12_Witness ==
    /\ nops = 2 /\ op = "msa_map_seq_to_msa"
    /\ Cardinality(RunStarts) = 2
    /\ hist[2].arg = 2 /\ ret = 3

----------------------------------------------------------------------------
(* Properties of msa_mask_macro_indels *)

\* Whether positions a..b (1-based) of a row are a maximal run of gaps.
GapRun(row, a, b) ==
    /\ a <= b
    /\ \A i \in a..b : row[i] = GAP_CHAR
    /\ a = 1 \/ row[a - 1] # GAP_CHAR
    /\ b = Len(row) \/ row[b + 1] # GAP_CHAR

\* C21: after msa_mask_macro_indels(msa, k, refseq), in every row other
\* than row refseq each maximal gap run longer than k is all missing-data
\* characters and each shorter one is unchanged; row refseq, the non-gap
\* characters and the length are unchanged; a compressed view that existed
\* before the call encodes the masked rows.
C21_MaskMacroIndels ==
    Ran("msa_mask_macro_indels") =>
        LET old == Matrix(pre)
            new == Deref(msa.seqs)
        IN  /\ msa.length = pre.length /\ msa.nseqs = pre.nseqs
            /\ \A j \in 1..pre.nseqs :
                 /\ Len(new[j]) = pre.length
                 /\ j = arg.refseq => new[j] = old[j]
                 /\ \A i \in 1..pre.length : old[j][i] # GAP_CHAR => new[j][i] = old[j][i]
                 /\ j # arg.refseq =>
                      \A a, b \in 1..pre.length :
                         GapRun(old[j], a, b) =>
                            \A i \in a..b :
                               new[j][i] = IF b - a + 1 > arg.k THEN "*" ELSE GAP_CHAR
            /\ ~IsNull(pre.ss) => (~IsNull(msa.ss) /\ Deref(msa.ss).data = new
                                    /\ Deref(msa.ss).tuple_size = Deref(pre.ss).tuple_size)

\* A run longer than k is masked next to a run of length k that is kept, in
\* an alignment that had a compressed view and whose reference row has gaps.
C21_Witness ==
    /\ Ran("msa_mask_macro_indels")
    /\ arg.k = 1 /\ arg.refseq = 1
    /\ ~IsNull(pre.ss) /\ pre.nseqs = 2
    /\ Matrix(pre)[1] = << GAP_CHAR, GAP_CHAR, "A" >>
    /\ Matrix(pre)[2] = << "A", GAP_CHAR, GAP_CHAR >>
    /\ Deref(msa.seqs)[2] = << "A", "*", "*" >>

----------------------------------------------------------------------------
(* Properties of msa_map_gff_coords *)

\* The frame a feature is in: the one given, or with -1 the one it names.
FrameOf(feat, seq) ==
    IF seq # -1 THEN seq
    ELSE IF feat.seqname = "MSA" THEN 0
    ELSE CHOOSE r \in 1..msa.nseqs : msa.names[r] = feat.seqname

\* The number of non-gap characters of row seq in columns 1..col.
NonGapsOf(seq, col) == Cardinality({ i \in 1..col : Matrix(msa)[seq][i] # GAP_CHAR })

\* The length of a frame: the alignment's, or the ungapped length of a row.
FrameLen(seq) == IF seq = 0 THEN msa.length ELSE NonGapsOf(seq, msa.length)

\* A coordinate of frame from has no place in frame to: it is no position
\* of frame from, or its column lies before the first character of row to.
OutOfRange(from, to, coord) ==
    \/ coord < 1
    \/ coord > FrameLen(from)
    \/ /\ to > 0
       /\ LET col == IF from = 0 THEN coord
                     ELSE CHOOSE c \in 1..msa.length :
                            Matrix(msa)[from][c] # GAP_CHAR /\ NonGapsOf(from, c) = coord
          IN  NonGapsOf(to, col) = 0

\* The features of the set handed in that do not map out of range at both
\* ends, in their order.
InRange(i) ==
    LET f == arg.gff.features[i]
    IN  ~(/\ OutOfRange(FrameOf(f, arg.from_seq), FrameOf(f, arg.to_seq), f.start)
          /\ OutOfRange(FrameOf(f, arg.from_seq), FrameOf(f, arg.to_seq), f.end))

\* C13: with from_seq different from to_seq, msa_map_gff_coords drops a
\* feature exactly when both its start and its end map out of range, and
\* every feature it keeps satisfies 1 <= start - offset <= end - offset <= L,
\* L the length of the target frame, whatever its type and strand.
C13_KeptFeaturesInRange ==
    (Ran("msa_map_gff_coords") /\ arg.from_seq # arg.to_seq) =>
        /\ Len(gff_set.features) =
             Cardinality({ i \in 1..Len(arg.gff.features) : InRange(i) })
        /\ \A k \in 1..Len(gff_set.features) :
             LET f == gff_set.features[k]
             IN  /\ 1 <= f.start - arg.offset
                 /\ f.start - arg.offset <= f.end - arg.offset
                 /\ f.end - arg.offset <= FrameLen(FrameOf(f, arg.to_seq))

\* What msa_map_gff_coords keeps of feature i of the set handed in when the
\* feature is translated between the frames it names.
MappedInOwnFrame(i) ==
    LET f == arg.gff.features[i]
    IN  gff_map_feature(pre, f, gff_frame_map(pre, FrameOf(f, arg.from_seq)),
                        gff_frame_map(pre, FrameOf(f, arg.to_seq)), arg.offset)

\* C22: with from_seq = -1 or to_seq = -1, every feature is translated in
\* the frame of the row its sequence name names, or the frame of the whole
\* alignment for "MSA", whatever the names of the features before it.
C22_FrameByName ==
    (Ran("msa_map_gff_coords") /\ arg.from_seq # arg.to_seq
       /\ (arg.from_seq = -1 \/ arg.to_seq = -1)) =>
        gff_set.features =
            Flatten([ i \in 1..Len(arg.gff.features) |-> MappedInOwnFrame(i) ])

----------------------------------------------------------------------------
(* Properties of msa_sub_alignment *)

\* C15: msa_sub_alignment ends in an error, no alignment returned and
\* nothing read outside the columns of the source, when the column range
\* [start_col, end_col) is empty, when it is not within [0, length], or
\* when a listed row index is outside [0, nseqs - 1].
C15_SubAlignmentRejects ==
    (nops = 1 /\ op = "msa_sub_alignment"
       /\ \/ arg.end_col <= arg.start_col
          \/ arg.start_col < 0
          \/ arg.end_col > orig.length
          \/ /\ ~IsNull(arg.seqlist)
             /\ \E i \in 1..Len(Deref(arg.seqlist)) :
                  Deref(arg.seqlist)[i] \notin 0..(orig.nseqs - 1))
      => status = "abort"

----------------------------------------------------------------------------
(* Properties of the alphabet *)

\* C18: after any sequence of msa_toupper, msa_remove_N_from_alph and
\* msa_reset_alphabet on an alignment made by msa_new, inv_alphabet[c] = i
\* exactly when alphabet[i] = c, and inv_alphabet[c] = -1 for every
\* character c that is not in the alphabet.
C18_AlphabetConsistent ==
    \A c \in { "#", "*", GAP_CHAR, ".", "A", "C", "G", "N", "T", "X", "a" } :
        /\ \A i \in 0..(Len(msa.alphabet) - 1) :
             (msa.inv_alphabet[ascii(c)] = i) <=> (msa.alphabet[i + 1] = c)
        /\ (\A i \in 1..Len(msa.alphabet) : msa.alphabet[i] # c)
             => msa.inv_alphabet[ascii(c)] = -1

----------------------------------------------------------------------------
(* Properties of msa_new_from_file *)

\* The characters the sequence lines of the file read supply, in order.
Supplied == Flatten(arg.F.rows[1].lines)

\* C19: reading a PHYLIP or MPM file ends in an error whenever a row
\* supplies a number of characters other than the declared length, also
\* when a line holds more characters than are left to reach it; and no
\* character is stored outside the row.
C19_LengthMismatchFails ==
    (nops = 1 /\ op = "msa_new_from_file" /\ arg.F.format \in { "PHYLIP", "MPM" }) =>
        /\ Len(Supplied) # arg.F.len => status = "abort"
        /\ ~ub

\* A character is recognized: it is, the case set right, the gap
\* character, a missing-data character or in the alphabet.
Recognized(c) ==
    LET t == msa_new_alphabet(arg.alphabet)
        up == IF msa_alph_has_lowercase(t) THEN c ELSE toupper(c)
    IN  \/ up = GAP_CHAR
        \/ \E i \in 1..Len(t.missing) : t.missing[i] = up
        \/ \E i \in 1..Len(t.alphabet) : t.alphabet[i] = up

\* C20: when an alignment is read from a FASTA, PHYLIP or MPM file, a
\* character that is not recognized makes the read end in a format error
\* if it is not a letter, and is stored as 'N' if it is one.
C20_UnrecognizedCharacters ==
    (nops = 1 /\ op = "msa_new_from_file" /\ status # "hang"
       /\ (arg.F.format = "FASTA" \/ Len(Supplied) = arg.F.len)) =>
        /\ (\E k \in 1..Len(Supplied) :
               ~Recognized(Supplied[k]) /\ Supplied[k] \notin { "A", "a", "X" })
             => status = "abort"
        /\ status = "ok" =>
             \A k \in 1..Len(Supplied) :
                (~Recognized(Supplied[k]) /\ Supplied[k] \in { "A", "a", "X" })
                  => Deref(msa.seqs)[1][k] = "N"

----------------------------------------------------------------------------
(* Properties of msa_coding_clean *)

StartCodon == << "A", "T", "G" >>

StopCodons == { << "T", "A", "A" >>, << "T", "A", "G" >>, << "T", "G", "A" >> }

\* The k-th codon of a row
Codon(row, k) == SubSeq(row, 3 * k - 2, 3 * k)

\* A gapless row made of a start codon, codons that are not stop codons,
\* and a stop codon.
IsCDS(row) ==
    /\ Len(row) % 3 = 0 /\ Len(row) >= 6
    /\ \A i \in 1..Len(row) : row[i] # GAP_CHAR
    /\ Codon(row, 1) = StartCodon
    /\ Codon(row, Len(row) \div 3) \in StopCodons
    /\ \A k \in 2..(Len(row) \div 3 - 1) : Codon(row, k) \notin StopCodons

CleanedCDS ==
    /\ Ran("msa_coding_clean")
    /\ \A j \in 1..pre.nseqs : IsCDS(Deref(pre.seqs)[j])

\* C6 as stated: on a gapless alignment whose rows are a start codon,
\* non-stop codons and a stop codon, msa_coding_clean with min_ncodons not
\* larger than the number of codons returns 0 and retains every codon.
C6_RetainsEveryCodon ==
    (CleanedCDS /\ arg.min_ncodons <= pre.length \div 3)
      => /\ ret = 0
         /\ msa.length = pre.length
         /\ msa.seqs = pre.seqs

\* C6, amended: on such an alignment msa_coding_clean with min_ncodons not
\* larger than the number of codons before the stop codon returns 0 with no
\* message and retains every codon but the stop codon, which it removes.
C6_RetainsAllButStopCodon ==
    (CleanedCDS /\ arg.min_ncodons <= pre.length \div 3 - 1)
      => /\ ret = 0
         /\ errstr = << >>
         /\ msa.length = pre.length - 3
         /\ \A j \in 1..pre.nseqs :
              Deref(msa.seqs)[j] = SubSeq(Deref(pre.seqs)[j], 1, pre.length - 3)

\* The row ATG AAA TAA was cleaned with min_ncodons = 1 and came out as
\* ATG AAA.
C6_Witness ==
    /\ CleanedCDS /\ arg.min_ncodons = 1
    /\ pre.nseqs = 1
    /\ Deref(pre.seqs)[1] = << "A", "T", "G", "A", "A", "A", "T", "A", "A" >>
    /\ ret = 0
    /\ Deref(msa.seqs)[1] = << "A", "T", "G", "A", "A", "A" >>

\* The first three bases of the reference row are a start codon.
BeginsWithStart(m, refseq) ==
    LET bases == SelectSeq(Deref(m.seqs)[refseq + 1], LAMBDA c : c # GAP_CHAR)
    IN  Len(bases) >= 3 /\ Codon(bases, 1) = StartCodon

\* C7: whenever msa_coding_clean returns 1 it has appended a non-empty
\* message to errstr and left the alignment, rows and length, as it was;
\* and it returns 1 whenever the first three non-gap characters of the
\* reference row are not a start codon.
C7_RejectionLeavesAlignment ==
    Ran("msa_coding_clean")
      => /\ ret = 1 => /\ Len(errstr) > 0
                       /\ \A k \in 1..Len(errstr) : errstr[k] # ""
                       /\ msa = pre
         /\ ~BeginsWithStart(pre, arg.refseq) => ret = 1

\* A reference row beginning AAA was rejected with the message about the
\* start codon.
C7_Witness ==
    /\ Ran("msa_coding_clean") /\ ret = 1
    /\ arg.refseq = 0
    /\ Deref(pre.seqs)[1] = << "A", "A", "A", "A", "A", "A", "T", "A", "A" >>
    /\ errstr = << NoStartMsg >>
    /\ msa = pre

\* An in-frame stop codon before the last fifth was found after a block had
\* been accepted, and the alignment was rejected.
C7_WitnessTruncated ==
    /\ Ran("msa_coding_clean") /\ ret = 1
    /\ Deref(pre.seqs)[1] = << "A", "T", "G", "T", "A", "A", "T", "A", "A" >>
    /\ Len(errstr) = 3 /\ errstr[1] = TruncMsg
    /\ msa = pre

\* Every row is gapless and begins with a start codon, and the last codon
\* of the reference row is a stop codon.
GaplessCoding ==
    /\ pre.length % 3 = 0 /\ pre.length >= 6
    /\ \A j \in 1..pre.nseqs :
         /\ \A i \in 1..pre.length : Deref(pre.seqs)[j][i] # GAP_CHAR
         /\ Codon(Deref(pre.seqs)[j], 1) = StartCodon
    /\ Codon(Deref(pre.seqs)[arg.refseq + 1], pre.length \div 3) \in StopCodons

\* The codons before the stop codon of the reference row that are a stop
\* codon in some row.
EarlyStops ==
    { k \in 1..(pre.length \div 3 - 1) :
        \E j \in 1..pre.nseqs : Codon(Deref(pre.seqs)[j], k) \in StopCodons }

\* The first column (0-based) of the first of them.
FirstStopCol == 3 * ((CHOOSE k \in EarlyStops : \A l \in EarlyStops : k <= l) - 1)

\* C24, for an in-frame stop codon in a gapless alignment, whose reference
\* span is columns 0..length-4: when the first in-frame stop codon begins
\* before the last 20% of the span msa_coding_clean returns 1; when it
\* begins within the last 20% the call returns 0 and the result is the
\* columns before it, with no stop codon in any row.
C24_LastFifthTruncates ==
    (Ran("msa_coding_clean") /\ GaplessCoding /\ EarlyStops # { }
        /\ arg.min_ncodons <= 1) =>
        IF 5 * FirstStopCol < 4 * (pre.length - 3)
        THEN ret = 1
        ELSE /\ ret = 0
             /\ msa.length = FirstStopCol
             /\ \A j \in 1..pre.nseqs :
                  /\ Deref(msa.seqs)[j] = SubSeq(Deref(pre.seqs)[j], 1, FirstStopCol)
                  /\ \A k \in 1..(msa.length \div 3) :
                       Codon(Deref(msa.seqs)[j], k) \notin StopCodons

\* beg and end of msa_coding_clean for the alignment cleaned: the column of
\* the first base of the reference row and, KEEP_STOP_CODONS being 0, the
\* column of its last base before the stop codon.
CleanSpan ==
    LET st == find_start(Deref(pre.seqs)[arg.refseq + 1], pre.length, 0,
                [ i |-> 0, beg |-> 0, beg_set |-> FALSE,
                  tmp_codon |-> << NUL, NUL, NUL >> ])
    IN  [ beg |-> st.beg,
          end |-> coding_find_stop(pre, arg.refseq, st, [ int |-> 0, char |-> NUL ]).end ]

\* The blocks msa_coding_clean retained.
RetainedBlocks ==
    find_blocks(pre, arg.refseq, arg.min_ncodons, CleanSpan.beg, CleanSpan.end,
      [ i |-> CleanSpan.beg, frame |-> 0, ngaps |-> [j \in 1..pre.nseqs |-> 0],
        block_begs |-> << >>, block_ends |-> << >>, trunc |-> 0 ])

\* The columns (1-based) of the last three bases of the reference row.
StopCols ==
    LET ref == Deref(pre.seqs)[arg.refseq + 1]
        bases == KeptCols(pre.length, LAMBDA i : ref[i] # GAP_CHAR)
    IN  SubSeq(bases, Len(bases) - 2, Len(bases))

\* C25 as stated: a retained block that begins at the reference row's start
\* codon has ATG there in every row, and a retained block that ends at the
\* reference row's end has a stop codon in every row at the columns of the
\* reference row's stop codon.
C25_StartAndStopInEveryRow ==
    (Ran("msa_coding_clean") /\ ret = 0) =>
        \A b \in 1..Len(RetainedBlocks.block_begs) :
           /\ RetainedBlocks.block_begs[b] = CleanSpan.beg =>
                \A j \in 1..pre.nseqs :
                   SubSeq(Deref(pre.seqs)[j], CleanSpan.beg + 1, CleanSpan.beg + 3) = StartCodon
           /\ RetainedBlocks.block_ends[b] = CleanSpan.end =>
                \A j \in 1..pre.nseqs :
                   [ k \in 1..3 |-> Deref(pre.seqs)[j][StopCols[k]] ] \in StopCodons

\* C25, amended: a retained block that begins at the reference row's start
\* codon has ATG there in every row; no retained block reaches beyond the
\* last base before the reference row's stop codon, and the result is the
\* retained blocks.
C25_StartCodonInEveryRow ==
    (Ran("msa_coding_clean") /\ ret = 0) =>
        /\ \A b \in 1..Len(RetainedBlocks.block_begs) :
              /\ RetainedBlocks.block_begs[b] = CleanSpan.beg =>
                   \A j \in 1..pre.nseqs :
                      SubSeq(Deref(pre.seqs)[j], CleanSpan.beg + 1, CleanSpan.beg + 3) = StartCodon
              /\ RetainedBlocks.block_ends[b] <= CleanSpan.end
              /\ CleanSpan.end < StopCols[1] - 1
        /\ \A j \in 1..pre.nseqs :
              Deref(msa.seqs)[j] = coding_blocks(Deref(pre.seqs)[j], RetainedBlocks.block_begs,
                                                 RetainedBlocks.block_ends)

\* The block ATG AAA of the rows ATG AAA TAA and ATG AAA AAA, which begins
\* at the start codon and ends at the reference row's end, was retained
\* though the second row has no stop codon.
C25_Witness ==
    /\ Ran("msa_coding_clean") /\ ret = 0
    /\ pre.nseqs = 2 /\ arg.refseq = 0 /\ arg.min_ncodons = 1
    /\ Deref(pre.seqs)[1] = << "A", "T", "G", "A", "A", "A", "T", "A", "A" >>
    /\ Deref(pre.seqs)[2] = << "A", "T", "G", "A", "A", "A", "A", "A", "A" >>
    /\ RetainedBlocks.block_begs = << 0 >> /\ RetainedBlocks.block_ends = << 5 >>
    /\ CleanSpan = [ beg |-> 0, end |-> 5 ]
    /\ Deref(msa.seqs)[2] = << "A", "T", "G", "A", "A", "A" >>

----------------------------------------------------------------------------
(* Properties of msa_indel_clean *)

\* Whether positions a..b (1-based) of a row are a maximal run without gap.
GaplessRun(row, a, b) ==
    /\ a <= b
    /\ \A i \in a..b : row[i] # GAP_CHAR
    /\ a = 1 \/ row[a - 1] = GAP_CHAR
    /\ b = Len(row) \/ row[b + 1] = GAP_CHAR

\* C26: after the first step of msa_indel_clean (with min_nseqs = 0 the
\* other steps change nothing), in every row every maximal gapless run
\* shorter than min_nbases is all missing-data characters, wherever it
\* lies, and in every other run the up to indel_border characters next to
\* each neighbouring gap run are missing-data characters.
C26_ShortRunsMasked ==
    (Ran("msa_indel_clean") /\ arg.min_nseqs = 0) =>
        /\ msa.length = pre.length
        /\ \A j \in 1..pre.nseqs : \A a, b \in 1..pre.length :
             GaplessRun(Matrix(pre)[j], a, b) =>
                \A i \in a..b :
                   LET c == Deref(msa.seqs)[j][i]
                   IN  IF b - a + 1 < arg.min_nbases
                       THEN c = arg.mdata_char
                       ELSE /\ (a > 1 /\ i - a < arg.indel_border) => c = arg.mdata_char
                            /\ (b < pre.length /\ b - i < arg.indel_border) =>
                                  c = arg.mdata_char

\* The number of characters of column i that are neither gap nor missing
\* data.
RealChars(rows, nseqs, i, mdata_char) ==
    Cardinality({ j \in 1..nseqs : rows[j][i] # GAP_CHAR /\ rows[j][i] # mdata_char })

\* The columns of the result that are empty.
EmptyInResult(i) ==
    RealChars(Deref(msa.seqs), msa.nseqs, i, arg.mdata_char) < arg.min_nseqs

\* C27: in the alignment msa_indel_clean produces, every run of consecutive
\* empty columns has length at most tuple_size - 1; with tuple_size = 1
\* there is no empty column.
C27_EmptyRunsCollapsed ==
    Ran("msa_indel_clean") =>
        \A a \in 1..msa.length :
           ~(a + arg.tuple_size - 1 <= msa.length
               /\ \A i \in a..(a + arg.tuple_size - 1) : EmptyInResult(i))

\* Two empty columns between two columns that are not empty came out as
\* one empty column between them, tuple_size being 2.
C27_Witness ==
    /\ Ran("msa_indel_clean") /\ arg.tuple_size = 2 /\ arg.min_nseqs = 1
    /\ arg.indel_border = 0 /\ arg.min_nbases = 0
    /\ pre.nseqs = 1 /\ ~IsNull(pre.seqs)
    /\ Deref(pre.seqs)[1] = << "A", GAP_CHAR, GAP_CHAR, "A" >>
    /\ msa.length = 3
    /\ Deref(msa.seqs)[1] = << "A", "*", "A" >>

\* The rows after the first two steps of msa_indel_clean.
Masked ==
    indel_masked(IF IsNull(pre.seqs) THEN ss_to_msa(pre) ELSE pre,
                 arg.indel_border, arg.min_nbases, arg.min_nseqs, arg.mdata_char).rows

\* The columns of rows that have at least min_nseqs real characters, in
\* order, as a sequence of columns.
NonEmptyColumns(rows, length) ==
    LET keep == KeptCols(length, LAMBDA i :
                   RealChars(rows, pre.nseqs, i, arg.mdata_char) >= arg.min_nseqs)
    IN  [ p \in 1..Len(keep) |-> [ j \in 1..pre.nseqs |-> rows[j][keep[p]] ] ]

\* C28: msa_indel_clean removes no column that is not empty: the columns
\* with at least min_nseqs real characters after masking are the columns of
\* the result that are not empty, in order and unchanged; the resulting
\* length is not negative.
C28_KeepsNonEmptyColumns ==
    (Ran("msa_indel_clean") /\ arg.min_nseqs >= 1) =>
        /\ msa.length >= 0
        /\ ~ub
        /\ NonEmptyColumns(Deref(msa.seqs), msa.length)
             = NonEmptyColumns(Masked, pre.length)

----------------------------------------------------------------------------
(* Properties of msa_label_categories *)

\* A feature of a known type with a category of its own that has a
\* precedence, lying within the alignment.
Labels(m, cm, feat) ==
    /\ feat.feature \in DOMAIN cm.categories
    /\ cm.ranges[cm.categories[feat.feature]].start_cat_no
         = cm.ranges[cm.categories[feat.feature]].end_cat_no
    /\ cm.labelling_precedence[cm.categories[feat.feature]] >= 0
    /\ 1 <= feat.start /\ feat.start <= feat.end /\ feat.end <= m.length

\* C8: when the feature set is two overlapping features whose categories
\* have different precedence (and the background category has none), every
\* column covered by both is labelled with the category of lower precedence
\* number, in whichever order the two features come.
C8_LowerPrecedenceWins ==
    (Ran("msa_label_categories") /\ Len(arg.gff) = 2
        /\ Labels(pre, arg.cm, arg.gff[1]) /\ Labels(pre, arg.cm, arg.gff[2])
        /\ arg.cm.labelling_precedence[0] = -1)
      => LET c1 == arg.cm.categories[arg.gff[1].feature]
             c2 == arg.cm.categories[arg.gff[2].feature]
             p1 == arg.cm.labelling_precedence[c1]
             p2 == arg.cm.labelling_precedence[c2]
         IN  p1 # p2 =>
               \A j \in 1..msa.length :
                 (/\ arg.gff[1].start <= j /\ j <= arg.gff[1].end
                  /\ arg.gff[2].start <= j /\ j <= arg.gff[2].end)
                   => Deref(msa.categories)[j] = IF p1 < p2 THEN c1 ELSE c2

\* Whether the category map knows the type of a feature.
Recognized_feature(cm, feat) == feat.feature \in DOMAIN cm.categories

\* C23: msa_label_categories does not abort; given one recognized feature
\* (background category without precedence), it leaves every column
\* unlabelled when the feature's start or end is -1 or its end lies beyond
\* the last column, and labels every column the feature covers when
\* 1 <= start <= end <= length, the last column included.
C23_SkipsOutOfRangeOnly ==
    (nops >= 1 /\ op = "msa_label_categories" /\ Len(arg.gff) = 1
        /\ Recognized_feature(arg.cm, arg.gff[1])
        /\ arg.cm.labelling_precedence[0] = -1)
      => LET f == arg.gff[1]
         IN  /\ status = "ok"
             /\ (f.start = -1 \/ f.end = -1 \/ f.end > pre.length) =>
                   \A j \in 1..msa.length : Deref(msa.categories)[j] = 0
             /\ (1 <= f.start /\ f.start <= f.end /\ f.end <= pre.length) =>
                   \A j \in 1..msa.length :
                      (Deref(msa.categories)[j] # 0) <=> (f.start <= j /\ j <= f.end)

\* C30: msa_label_categories reads and writes no categories entry outside
\* positions 1..length, whatever start and end the features carry, and
\* every column that no recognized feature covers has category 0 afterwards.
C30_LabelsWithinBounds ==
    (nops >= 1 /\ op = "msa_label_categories") =>
        /\ ~ub
        /\ Len(Deref(msa.categories)) >= msa.length
        /\ \A j \in 1..msa.length :
              (\A i \in 1..Len(arg.gff) :
                  ~(/\ Recognized_feature(arg.cm, arg.gff[i])
                    /\ arg.gff[i].start <= j /\ j <= arg.gff[i].end))
                => Deref(msa.categories)[j] = 0

----------------------------------------------------------------------------
(* Properties of the storage of explicit rows *)

\* Every row of the alignment in hand has storage for alloc_len + 1
\* characters, and alloc_len is at least the length.
StorageHoldsAllocLen(m) ==
    /\ m.alloc_len >= m.length
    /\ \A j \in 1..m.nseqs : m.row_alloc[j] >= m.alloc_len + 1

\* C29: after any sequence of msa_new, msa_sub_alignment, msa_strip_gaps,
\* msa_reorder_rows and msa_concatenate calls on an explicit alignment,
\* every row's storage holds at least alloc_len + 1 characters and
\* alloc_len >= length, and msa_concatenate never writes past the end of
\* the storage of a row.
C29_StorageHoldsAllocLen ==
    (status = "ok" /\ ~IsNull(msa.seqs)) =>
        /\ StorageHoldsAllocLen(msa)
        /\ Ran("msa_concatenate") => ~msa_concatenate_ub(pre, arg)

====
